---- MODULE Spec2Model ----
(***************************************************************************)
(* Picksmart Stores: the Shopify webhook endpoint, its product, order and  *)
(* customer handlers, and the product migration, modelled over an          *)
(* abstract Prisma store.                                                  *)
(*                                                                         *)
(* Store collections are sequences in insertion order; a record's id is    *)
(* its position (no code path removes a record).  Every store call of a    *)
(* handler is counted, and the call numbered failAt (0 = none) throws, so  *)
(* a handler can fail between any two writes.                              *)
(***************************************************************************)
EXTENDS Integers, Sequences, FiniteSets, TLC

\* ------------------------------------------------------------------ bounds
\* Number of requests / migration runs in one behaviour (the clock value
\* that stamps createdAt / updatedAt).
MaxClock == 2

\* The same, in behaviours where store calls may fail.
MaxFaultyClock == 1

\* ------------------------------------------------------- abstract values
NULL == "NULL"                  \* null / undefined string
NoId == 0                       \* absent id (ids are positions, from 1)
HtmlNull == <<"NULL">>          \* null body_html
NumNull == <<>>                 \* null / empty numeric string

\* base64 length of a SHA-256 digest
DigestLen == 44
SeoDescriptionLen == 160
DescriptionLen == 500

WEBHOOK_SECRET == "shared-secret"

\* ------------------------------------------------------ string helpers
Min(a, b) == IF a < b THEN a ELSE b

\* String.prototype.substring(0, n) on a token sequence
Substring(s, n) == SubSeq(s, 1, Min(Len(s), n))

IsTag(tok) == tok \in {"<p>", "</p>", "<b>", "</b>"}

\* html.replace(/<[^>]*>/g, '')
StripTags(s) == SelectSeq(s, LAMBDA tok : ~IsTag(tok))

\* String.prototype.toUpperCase on the status strings
ToUpperCase(s) ==
  CASE s = "active"   -> "ACTIVE"
    [] s = "draft"    -> "DRAFT"
    [] s = "archived" -> "ARCHIVED"
    [] OTHER          -> s

RECURSIVE DigitsValue(_)
DigitsValue(ds) ==
  IF ds = <<>> THEN 0 ELSE 10 * DigitsValue(SubSeq(ds, 1, Len(ds) - 1)) + ds[Len(ds)]

\* parseFloat(s || '0') on a string of decimal digits
ParseFloatOr0(ds) == IF ds = NumNull THEN 0 ELSE DigitsValue(ds)

\* parseFloat(s) without default: NaN (-1) on the empty string
ParseFloat(ds) == IF ds = NumNull THEN -1 ELSE DigitsValue(ds)

RECURSIVE SumInventory(_)
SumInventory(vs) ==
  IF vs = <<>> THEN 0 ELSE vs[1].inventory_quantity + SumInventory(Tail(vs))

\* [name, address1, ..., zip].filter(Boolean).join(', ')
formatAddress(address) == SelectSeq(address, LAMBDA part : part # "")

\* ------------------------------------------------------------ signature
\* crypto.createHmac('sha256', secret).update(body).digest('base64'):
\* a 44-character value determined by (secret, body), collision-free on
\* the bodies considered.
CalculatedHmac(body, secret) == [len |-> DigestLen, val |-> <<secret, body>>]

NoHeader == [len |-> -1, val |-> <<>>]      \* headers.get(...) === null
EmptyHeader == [len |-> 0, val |-> <<>>]    \* header present but ''

\* crypto.timingSafeEqual: RangeError when the byte lengths differ
timingSafeEqual(a, b) ==
  IF a.len # b.len THEN "throw" ELSE IF a = b THEN "true" ELSE "false"

\* mutant: compares the lengths of the two digests only
verifyShopifyWebhook_LengthOnly(hdr, body, secret) ==
  IF hdr = NoHeader \/ hdr = EmptyHeader THEN "false"
  ELSE IF hdr.len # CalculatedHmac(body, secret).len THEN "throw"
  ELSE "true"

verifyShopifyWebhook(hdr, body, secret) ==
  IF hdr = NoHeader \/ hdr = EmptyHeader THEN "false"
  ELSE timingSafeEqual(hdr, CalculatedHmac(body, secret))

\* ------------------------------------------------------------- the store
EmptyDb ==
  [products |-> <<>>, variants |-> <<>>, images |-> <<>>, metafields |-> <<>>,
   categories |-> <<>>, orders |-> <<>>, orderItems |-> <<>>, users |-> <<>>]

\* prisma.<model>.findFirst / findUnique: id of the first match, or NoId
FindFirst(coll, Match(_)) ==
  IF \E i \in 1..Len(coll) : Match(coll[i])
  THEN CHOOSE i \in 1..Len(coll) :
         Match(coll[i]) /\ \A j \in 1..(i - 1) : ~Match(coll[j])
  ELSE NoId

\* One handler invocation: the store, the clock, the number of store calls
\* issued, the call that fails, whether an exception is propagating, and
\* the handlers entered so far.
NewCtx(db, now, failAt) ==
  [db |-> db, now |-> now, ops |-> 0, failAt |-> failAt, thrown |-> FALSE,
   calls |-> <<>>]

\* issue one store call (it rejects when it is the failing one)
Call(c) == [c EXCEPT !.ops = @ + 1, !.thrown = (c.ops + 1 = c.failAt)]

Enter(c, name) == [c EXCEPT !.calls = Append(@, name)]

Throw(c) == [c EXCEPT !.thrown = TRUE]

\* --------------------------------------------------------------- products
ProductFromWebhook(data, id, now) ==
  [id |-> id,
   handle |-> data.handle,
   title |-> data.title,
   bodyHtml |-> data.body_html,
   vendor |-> data.vendor,
   productType |-> data.product_type,
   tags |-> data.tags,
   published |-> (data.published_at # NULL),
   seoTitle |-> data.title,
   seoDescription |->
     IF data.body_html = HtmlNull THEN HtmlNull
     ELSE Substring(data.body_html, SeoDescriptionLen),
   status |-> IF data.status = NULL THEN "ACTIVE" ELSE ToUpperCase(data.status),
   name |-> data.title,
   description |->
     IF data.body_html = HtmlNull THEN <<>>
     ELSE Substring(StripTags(data.body_html), DescriptionLen),
   imageUrl |-> IF data.images = <<>> THEN NULL ELSE data.images[1].src,
   price |-> IF data.variants = <<>> THEN 0 ELSE data.variants[1].price,
   stock |-> SumInventory(data.variants),
   compareAtPrice |-> 0,
   costPerItem |-> 0,
   categoryId |-> NoId,
   createdAt |-> now,
   updatedAt |-> now]

ProductStatuses == {"ACTIVE", "DRAFT", "ARCHIVED"}

\* prisma.product.create: rejects a duplicate handle (@unique) and a status
\* outside the ProductStatus enum
ProductCreate(c, rec) ==
  IF \/ \E i \in 1..Len(c.db.products) : c.db.products[i].handle = rec.handle
     \/ rec.status \notin ProductStatuses
  THEN Throw(c)
  ELSE [c EXCEPT !.db.products = Append(@, rec)]

RECURSIVE handleProductCreate(_, _), handleProductUpdate(_, _)

handleProductCreate(c0, data) ==
  LET c  == Enter(c0, "handleProductCreate")
      c1 == Call(c)                                   \* product.findFirst
      existing == FindFirst(c.db.products, LAMBDA p : p.handle = data.handle)
      c2 == Call(c1)                                  \* product.create
  IN  IF c1.thrown THEN c1
      ELSE IF existing # NoId THEN handleProductUpdate(c1, data)
      ELSE IF c2.thrown THEN c2
      ELSE ProductCreate(c2,
             ProductFromWebhook(data, Len(c.db.products) + 1, c.now))

\* mutant: a product update also rewrites the name of the order items
\* that refer to the product
handleProductUpdate_RewritesItems(c0, data) ==
  LET c  == Enter(c0, "handleProductUpdate")
      c1 == Call(c)
      product == FindFirst(c.db.products, LAMBDA p : p.handle = data.handle)
      c2 == Call(c1)
      upd == [ProductFromWebhook(data, product, c.now) EXCEPT
                !.createdAt = c.db.products[product].createdAt]
  IN  IF c1.thrown THEN c1
      ELSE IF product = NoId THEN handleProductCreate(c1, data)
      ELSE IF c2.thrown THEN c2
      ELSE IF upd.status \notin ProductStatuses THEN Throw(c2)
      ELSE [c2 EXCEPT
              !.db.products[product] = upd,
              !.db.orderItems =
                [i \in 1..Len(@) |->
                   IF @[i].productName = c.db.products[product].title
                   THEN [@[i] EXCEPT !.productName = data.title]
                   ELSE @[i]]]

handleProductUpdate(c0, data) ==
  LET c  == Enter(c0, "handleProductUpdate")
      c1 == Call(c)                                   \* product.findFirst
      product == FindFirst(c.db.products, LAMBDA p : p.handle = data.handle)
      c2 == Call(c1)                                  \* product.update
      old == c.db.products[product]
      new == ProductFromWebhook(data, product, c.now)
      upd == [new EXCEPT !.handle = old.handle,
                         !.compareAtPrice = old.compareAtPrice,
                         !.costPerItem = old.costPerItem,
                         !.categoryId = old.categoryId,
                         !.createdAt = old.createdAt]
  IN  IF c1.thrown THEN c1
      ELSE IF product = NoId THEN handleProductCreate(c1, data)
      ELSE IF c2.thrown THEN c2
      ELSE IF upd.status \notin ProductStatuses THEN Throw(c2)
      ELSE [c2 EXCEPT !.db.products[product] = upd]

\* mutant: removes the product instead of archiving it
handleProductDelete_Hard(c0, data) ==
  LET c  == Enter(c0, "handleProductDelete")
      c1 == Call(c)
      product == FindFirst(c.db.products, LAMBDA p : p.handle = data.handle)
      c2 == Call(c1)
  IN  IF c1.thrown THEN c1
      ELSE IF product = NoId THEN c1
      ELSE IF c2.thrown THEN c2
      ELSE [c2 EXCEPT !.db.products =
              SelectSeq(@, LAMBDA p : p.handle # data.handle)]

handleProductDelete(c0, data) ==
  LET c  == Enter(c0, "handleProductDelete")
      c1 == Call(c)                                   \* product.findFirst
      product == FindFirst(c.db.products, LAMBDA p : p.handle = data.handle)
      c2 == Call(c1)                                  \* product.update
  IN  IF c1.thrown THEN c1
      ELSE IF product = NoId THEN c1
      ELSE IF c2.thrown THEN c2
      ELSE [c2 EXCEPT !.db.products[product].status = "ARCHIVED",
                      !.db.products[product].updatedAt = c.now]

\* ----------------------------------------------------------------- orders
RECURSIVE Digits(_)
\* Number.prototype.toString(): the decimal digits of a non-negative id
Digits(n) == IF n < 10 THEN <<n>> ELSE Append(Digits(n \div 10), n % 10)

\* x?.toString(): undefined for a missing id
ToStringOpt(n) == IF n = NoId THEN NumNull ELSE Digits(n)

\* statusMapping[financial_status] || 'PENDING'
statusMapping(fs) ==
  CASE fs = "pending"        -> "PENDING"
    [] fs = "paid"           -> "CONFIRMED"
    [] fs = "partially_paid" -> "PENDING"
    [] fs = "refunded"       -> "CANCELLED"
    [] fs = "voided"         -> "CANCELLED"
    [] fs = "authorized"     -> "PENDING"
    [] OTHER                 -> "PENDING"

OrderFromWebhook(data, id, userId, now) ==
  [id |-> id,
   userId |-> userId,
   customerEmail |-> data.email,
   status |-> statusMapping(data.financial_status),
   totalAmount |-> ParseFloatOr0(data.total_price),
   shopifyOrderId |-> Digits(data.id),
   shopifyOrderName |-> data.name,
   financialStatus |-> data.financial_status,
   fulfillmentStatus |-> data.fulfillment_status,
   currency |-> data.currency,
   subtotalPrice |-> ParseFloatOr0(data.subtotal_price),
   totalTax |-> ParseFloatOr0(data.total_tax),
   shippingPrice |-> ParseFloatOr0(data.shipping_amount),
   totalDiscounts |-> ParseFloatOr0(data.total_discounts),
   billingAddress |-> formatAddress(data.billing_address),
   shippingAddress |-> formatAddress(data.shipping_address),
   createdAt |-> now,
   updatedAt |-> now]

OrderItemFromWebhook(lineItem, id, orderId) ==
  [id |-> id,
   orderId |-> orderId,
   productName |-> lineItem.name,
   quantity |-> lineItem.quantity,
   price |-> ParseFloat(lineItem.price),
   sku |-> lineItem.sku,
   shopifyVariantId |-> ToStringOpt(lineItem.variant_id),
   shopifyProductId |-> ToStringOpt(lineItem.product_id)]

RECURSIVE CreateOrderItems(_, _, _)
\* for (const lineItem of data.line_items || []) await orderItem.create(...)
CreateOrderItems(c, orderId, items) ==
  IF items = <<>> THEN c
  ELSE LET c1 == Call(c)                              \* orderItem.create
       IN  IF c1.thrown THEN c1
           ELSE CreateOrderItems(
                  [c1 EXCEPT !.db.orderItems =
                     Append(@, OrderItemFromWebhook(items[1], Len(@) + 1, orderId))],
                  orderId, Tail(items))

\* mutant: creates the order without looking for an existing one
handleOrderCreate_NoExistingCheck(c0, data) ==
  LET c  == Enter(c0, "handleOrderCreate")
      c2 == Call(c)
      user == FindFirst(c.db.users, LAMBDA u : u.email = data.email)
      c3 == Call(c2)
      orderId == Len(c.db.orders) + 1
      c4 == [c3 EXCEPT !.db.orders =
               Append(@, OrderFromWebhook(data, orderId, user, c.now))]
  IN  IF c2.thrown THEN c2
      ELSE IF c3.thrown THEN c3
      ELSE CreateOrderItems(c4, orderId, data.line_items)

handleOrderCreate(c0, data) ==
  LET c  == Enter(c0, "handleOrderCreate")
      c1 == Call(c)                                   \* order.findFirst
      existing == FindFirst(c.db.orders,
                            LAMBDA o : o.shopifyOrderId = Digits(data.id))
      c2 == Call(c1)                                  \* user.findUnique
      user == FindFirst(c.db.users, LAMBDA u : u.email = data.email)
      c3 == Call(c2)                                  \* order.create
      orderId == Len(c.db.orders) + 1
      c4 == [c3 EXCEPT !.db.orders =
               Append(@, OrderFromWebhook(data, orderId, user, c.now))]
  IN  IF c1.thrown THEN c1
      ELSE IF existing # NoId THEN c1
      ELSE IF c2.thrown THEN c2
      ELSE IF c3.thrown THEN c3
      ELSE CreateOrderItems(c4, orderId, data.line_items)

\* mutant: drops an update whose order is unknown
handleOrderUpdate_DropsUnknown(c0, data) ==
  LET c  == Enter(c0, "handleOrderUpdate")
      c1 == Call(c)
      order == FindFirst(c.db.orders,
                         LAMBDA o : o.shopifyOrderId = Digits(data.id))
      c2 == Call(c1)
  IN  IF c1.thrown THEN c1
      ELSE IF order = NoId THEN c1
      ELSE IF c2.thrown THEN c2
      ELSE [c2 EXCEPT !.db.orders[order].financialStatus = data.financial_status,
                      !.db.orders[order].status =
                         statusMapping(data.financial_status),
                      !.db.orders[order].updatedAt = c.now]

handleOrderUpdate(c0, data) ==
  LET c  == Enter(c0, "handleOrderUpdate")
      c1 == Call(c)                                   \* order.findFirst
      order == FindFirst(c.db.orders,
                         LAMBDA o : o.shopifyOrderId = Digits(data.id))
      c2 == Call(c1)                                  \* order.update
      old == c.db.orders[order]
      upd == [old EXCEPT
                !.status = statusMapping(data.financial_status),
                !.totalAmount = ParseFloatOr0(data.total_price),
                !.financialStatus = data.financial_status,
                !.fulfillmentStatus = data.fulfillment_status,
                !.subtotalPrice = ParseFloatOr0(data.subtotal_price),
                !.totalTax = ParseFloatOr0(data.total_tax),
                !.shippingPrice = ParseFloatOr0(data.shipping_amount),
                !.totalDiscounts = ParseFloatOr0(data.total_discounts),
                !.updatedAt = c.now]
  IN  IF c1.thrown THEN c1
      ELSE IF order = NoId THEN handleOrderCreate(c1, data)
      ELSE IF c2.thrown THEN c2
      ELSE [c2 EXCEPT !.db.orders[order] = upd]

\* -------------------------------------------------------------- customers
\* bcrypt.hash('shopify-migration-temp', 10)
defaultPassword == "bcrypt:shopify-migration-temp"

\* x || '' on an optional string
OrEmpty(s) == IF s = NULL THEN "" ELSE s

UserFromWebhook(data, id, now) ==
  [id |-> id,
   email |-> data.email,
   password |-> defaultPassword,
   firstName |-> OrEmpty(data.first_name),
   lastName |-> OrEmpty(data.last_name),
   phone |-> OrEmpty(data.phone),
   shopifyCustomerId |-> Digits(data.id),
   acceptsMarketing |-> data.accepts_marketing,
   totalSpent |-> ParseFloatOr0(data.total_spent),
   orderCount |-> ParseFloatOr0(data.orders_count),
   verifiedEmail |-> data.verified_email,
   address |-> formatAddress(data.default_address),
   createdAt |-> now,
   updatedAt |-> now]

\* prisma.user.create: rejects a duplicate email (@unique)
UserCreate(c, rec) ==
  IF \E i \in 1..Len(c.db.users) : c.db.users[i].email = rec.email
  THEN Throw(c)
  ELSE [c EXCEPT !.db.users = Append(@, rec)]

handleCustomerCreate(c0, data) ==
  LET c  == Enter(c0, "handleCustomerCreate")
      c1 == Call(c)                                   \* user.findUnique
      existing == FindFirst(c.db.users, LAMBDA u : u.email = data.email)
      c2 == Call(c1)                                  \* user.create
  IN  IF c1.thrown THEN c1
      ELSE IF existing # NoId THEN c1
      ELSE IF c2.thrown THEN c2
      ELSE UserCreate(c2, UserFromWebhook(data, Len(c.db.users) + 1, c.now))

handleCustomerUpdate(c0, data) ==
  LET c  == Enter(c0, "handleCustomerUpdate")
      c1 == Call(c)                                   \* user.findUnique
      user == FindFirst(c.db.users, LAMBDA u : u.email = data.email)
      c2 == Call(c1)                                  \* user.update
      old == c.db.users[user]
      new == UserFromWebhook(data, user, c.now)
      upd == [old EXCEPT
                !.firstName = new.firstName,
                !.lastName = new.lastName,
                !.phone = new.phone,
                !.acceptsMarketing = new.acceptsMarketing,
                !.totalSpent = new.totalSpent,
                !.orderCount = new.orderCount,
                !.verifiedEmail = new.verifiedEmail,
                !.address = new.address,
                !.updatedAt = c.now]
  IN  IF c1.thrown THEN c1
      ELSE IF user = NoId THEN handleCustomerCreate(c1, data)
      ELSE IF c2.thrown THEN c2
      ELSE [c2 EXCEPT !.db.users[user] = upd]

\* ------------------------------------------------------ webhook endpoint
ProductTopics == {"products/create", "products/update", "products/delete"}
OrderUpdateTopics ==
  {"orders/updated", "orders/paid", "orders/cancelled", "orders/fulfilled"}
OrderTopics == {"orders/create"} \cup OrderUpdateTopics
CustomerTopics == {"customers/create", "customers/update"}
HandledTopics == ProductTopics \cup OrderTopics \cup CustomerTopics

\* mutant: a topic without a case is an error
Dispatch_UnknownFails(c, topic, data) ==
  CASE topic = "products/create"  -> handleProductCreate(c, data)
    [] topic = "products/update"  -> handleProductUpdate(c, data)
    [] topic = "products/delete"  -> handleProductDelete(c, data)
    [] topic = "orders/create"    -> handleOrderCreate(c, data)
    [] topic \in OrderUpdateTopics -> handleOrderUpdate(c, data)
    [] topic = "customers/create" -> handleCustomerCreate(c, data)
    [] topic = "customers/update" -> handleCustomerUpdate(c, data)
    [] OTHER                      -> Throw(c)

\* the switch (topic) of POST
Dispatch(c, topic, data) ==
  CASE topic = "products/create"  -> handleProductCreate(c, data)
    [] topic = "products/update"  -> handleProductUpdate(c, data)
    [] topic = "products/delete"  -> handleProductDelete(c, data)
    [] topic = "orders/create"    -> handleOrderCreate(c, data)
    [] topic \in OrderUpdateTopics -> handleOrderUpdate(c, data)
    [] topic = "customers/create" -> handleCustomerCreate(c, data)
    [] topic = "customers/update" -> handleCustomerUpdate(c, data)
    [] OTHER                      -> c

Unauthorized == 401
InternalServerError == 500
Success == 200

\* What one request did: the store it leaves, the response status, whether
\* JSON.parse was reached, the handlers entered, whether the handler threw,
\* and the number of store calls issued.
Outcome(db, resp, parsed, c) ==
  [db |-> db, resp |-> resp, parsed |-> parsed, calls |-> c.calls,
   thrown |-> c.thrown, ops |-> c.ops]

\* mutant: acknowledges whether or not the handler threw
POST_AcksAnyway(db, now, req, failAt) ==
  LET idle == NewCtx(db, now, 0)
      v == verifyShopifyWebhook(req.hdr, req.body, WEBHOOK_SECRET)
      c == Dispatch(NewCtx(db, now, failAt), req.topic, req.body.data)
  IN  IF v = "throw" THEN Outcome(db, InternalServerError, FALSE, idle)
      ELSE IF v = "false" THEN Outcome(db, Unauthorized, FALSE, idle)
      ELSE IF ~req.body.json THEN Outcome(db, InternalServerError, TRUE, idle)
      ELSE Outcome(c.db, Success, TRUE, c)

\* export async function POST(request)
POST(db, now, req, failAt) ==
  LET idle == NewCtx(db, now, 0)
      v == verifyShopifyWebhook(req.hdr, req.body, WEBHOOK_SECRET)
      \* return NextResponse.json({ success: true }), or the catch block
      Respond(c) ==
        Outcome(c.db, IF c.thrown THEN InternalServerError ELSE Success,
                TRUE, c)
  IN  IF v = "throw" THEN Outcome(db, InternalServerError, FALSE, idle)
      ELSE IF v = "false" THEN Outcome(db, Unauthorized, FALSE, idle)
      ELSE IF ~req.body.json THEN Outcome(db, InternalServerError, TRUE, idle)
      ELSE Respond(Dispatch(NewCtx(db, now, failAt), req.topic,
                            req.body.data))

\* ------------------------------------------------- product export parser
\* Text that the migration splits, sorts or slugs is a sequence of
\* one-character strings; CodeUnit gives the UTF-16 code Array.prototype.sort
\* compares by.
CodeUnit(ch) ==
  CASE ch = " " -> 32 [] ch = "&" -> 38 [] ch = "(" -> 40 [] ch = ")" -> 41
    [] ch = "-" -> 45 [] ch = ">" -> 62
    [] ch = "G" -> 71 [] ch = "H" -> 72 [] ch = "K" -> 75 [] ch = "S" -> 83
    [] ch = "g" -> 103 [] ch = "h" -> 104 [] ch = "k" -> 107 [] ch = "s" -> 115
    [] OTHER -> 63

\* String.prototype.toLowerCase, one character
LowerChar(ch) ==
  CASE ch = "G" -> "g" [] ch = "H" -> "h" [] ch = "K" -> "k" [] ch = "S" -> "s"
    [] OTHER -> ch

IsSlugChar(ch) == ch \in {"g", "h", "k", "s"}

Separator == <<" ", ">", " ">>

RECURSIVE SplitFrom(_, _, _, _)
SplitFrom(str, i, cur, acc) ==
  IF i > Len(str) THEN Append(acc, cur)
  ELSE IF i + 2 <= Len(str) /\ SubSeq(str, i, i + 2) = Separator
       THEN SplitFrom(str, i + 3, <<>>, Append(acc, cur))
       ELSE SplitFrom(str, i + 1, Append(cur, str[i]), acc)

\* str.split(' > ')
SplitPath(str) == SplitFrom(str, 1, <<>>, <<>>)

RECURSIVE JoinPath(_)
\* parts.join(' > ')
JoinPath(parts) ==
  IF Len(parts) = 0 THEN <<>>
  ELSE IF Len(parts) = 1 THEN parts[1]
  ELSE parts[1] \o Separator \o JoinPath(Tail(parts))

RECURSIVE StrLess(_, _)
\* a < b as JavaScript compares strings
StrLess(a, b) ==
  IF b = <<>> THEN FALSE
  ELSE IF a = <<>> THEN TRUE
  ELSE IF CodeUnit(a[1]) # CodeUnit(b[1]) THEN CodeUnit(a[1]) < CodeUnit(b[1])
  ELSE StrLess(Tail(a), Tail(b))

RECURSIVE SortStrings(_)
\* the candidate paths in descending order
SortStrings_Descending(S) ==
  IF S = {} THEN <<>>
  ELSE LET m == CHOOSE x \in S : \A y \in S \ {x} : StrLess(y, x)
       IN  <<m>> \o SortStrings(S \ {m})

\* Array.from(set).sort()
SortStrings(S) ==
  IF S = {} THEN <<>>
  ELSE LET m == CHOOSE x \in S : \A y \in S \ {x} : StrLess(x, y)
       IN  <<m>> \o SortStrings(S \ {m})

RECURSIVE DashRuns(_, _)
\* .replace(/[^a-z0-9]+/g, '-') on lower-cased text
DashRuns(str, inRun) ==
  IF str = <<>> THEN <<>>
  ELSE IF IsSlugChar(str[1]) THEN <<str[1]>> \o DashRuns(Tail(str), FALSE)
  ELSE IF inRun THEN DashRuns(Tail(str), TRUE)
  ELSE <<"-">> \o DashRuns(Tail(str), TRUE)

\* .replace(/^-+|-+$/g, '') (runs are already single dashes)
TrimDashes(str) ==
  LET a == IF str # <<>> /\ str[1] = "-" THEN Tail(str) ELSE str
  IN  IF a # <<>> /\ a[Len(a)] = "-" THEN SubSeq(a, 1, Len(a) - 1) ELSE a

generateSlug(name) ==
  TrimDashes(DashRuns([i \in 1..Len(name) |-> LowerChar(name[i])], FALSE))

RECURSIVE TrimLeft(_)
TrimLeft(str) ==
  IF str # <<>> /\ str[1] = " " THEN TrimLeft(Tail(str)) ELSE str

RECURSIVE TrimRight(_)
TrimRight(str) ==
  IF str # <<>> /\ str[Len(str)] = " "
  THEN TrimRight(SubSeq(str, 1, Len(str) - 1)) ELSE str

\* String.prototype.trim
Trim(str) == TrimRight(TrimLeft(str))

\* row.Tags.split(',').map(trim).filter(tag => tag); Tags is the list of
\* pieces between the commas
ParseTags(pieces) ==
  SelectSeq([i \in 1..Len(pieces) |-> Trim(pieces[i])], LAMBDA t : t # <<>>)

normalizeStatus(status) ==
  IF status = "" THEN "active"
  ELSE CASE status \in {"active", "Active", "ACTIVE", " active"} -> "active"
         [] status \in {"draft", "Draft", "DRAFT"}               -> "draft"
         [] status \in {"archived", "Archived", "ARCHIVED"}      -> "archived"
         [] OTHER                                                -> "active"

\* x || undefined on a string column
OrNull(str) == IF str = "" THEN NULL ELSE str

NewParsedProduct(row) ==
  [handle |-> row.Handle,
   title |-> row.Title,
   bodyHtml |-> row.BodyHtml,
   vendor |-> row.Vendor,
   productCategory |-> row.ProductCategory,
   type |-> row.Type,
   tags |-> ParseTags(row.Tags),
   published |-> (row.Published = "true"),
   seoTitle |-> row.SEOTitle,
   seoDescription |-> row.SEODescription,
   status |-> normalizeStatus(row.Status),
   variants |-> <<>>,
   images |-> <<>>,
   metafields |-> <<>>]

ParsedVariant(row) ==
  [title |-> IF row.Option1Value = "" THEN "Default Title" ELSE row.Option1Value,
   sku |-> OrNull(row.VariantSKU),
   price |-> ParseFloatOr0(row.VariantPrice),
   compareAtPrice |-> ParseFloatOr0(row.VariantCompareAtPrice),
   costPerItem |-> ParseFloatOr0(row.CostPerItem),
   inventoryQty |-> ParseFloatOr0(row.VariantInventoryQty),
   weight |-> ParseFloatOr0(row.VariantGrams),      \* in thousandths of a kg
   option1Value |-> OrNull(row.Option1Value)]

ParsedImage(row) ==
  [src |-> row.ImageSrc,
   altText |-> OrNull(row.ImageAltText),
   position |-> IF ParseFloatOr0(row.ImagePosition) = 0 THEN 1
                ELSE ParseFloatOr0(row.ImagePosition)]

Exists(seq, P(_)) == \E i \in 1..Len(seq) : P(seq[i])

AddMetafield(metafields, key, value) ==
  IF value # "" /\ ~Exists(metafields, LAMBDA m : m.key = key)
  THEN Append(metafields,
              [namespace |-> "shopify", key |-> key, value |-> value,
               type |-> "string"])
  ELSE metafields

extractMetafields(row, metafields) ==
  AddMetafield(AddMetafield(metafields, "color-pattern", row.Color),
               "exercise-machine-features", row.ExerciseFeatures)

\* the row loop without the duplicate check on variants
AccumulateRow_EveryVariant(product, row) ==
  LET image == ParsedImage(row)
  IN  [product EXCEPT
         !.variants = IF row.VariantPrice # NumNull
                         /\ ParseFloat(row.VariantPrice) > 0
                      THEN Append(@, ParsedVariant(row)) ELSE @,
         !.images = IF row.ImageSrc # ""
                       /\ ~Exists(@, LAMBDA img : img.src = image.src)
                    THEN Append(@, image) ELSE @,
         !.metafields = extractMetafields(row, @)]

\* the row loop taking a variant from every row, priced or not
AccumulateRow_Unpriced(product, row) ==
  LET variant == ParsedVariant(row)
      image == ParsedImage(row)
  IN  [product EXCEPT
         !.variants = IF ~Exists(@, LAMBDA v :
                                      v.sku = variant.sku
                                      /\ v.option1Value = variant.option1Value)
                      THEN Append(@, variant) ELSE @,
         !.images = IF row.ImageSrc # ""
                       /\ ~Exists(@, LAMBDA img : img.src = image.src)
                    THEN Append(@, image) ELSE @,
         !.metafields = extractMetafields(row, @)]

\* the row loop without the duplicate check on images
AccumulateRow_EveryImage(product, row) ==
  LET variant == ParsedVariant(row)
  IN  [product EXCEPT
         !.variants = IF /\ row.VariantPrice # NumNull
                         /\ ParseFloat(row.VariantPrice) > 0
                         /\ ~Exists(@, LAMBDA v :
                                      v.sku = variant.sku
                                      /\ v.option1Value = variant.option1Value)
                      THEN Append(@, variant) ELSE @,
         !.images = IF row.ImageSrc # "" THEN Append(@, ParsedImage(row))
                    ELSE @,
         !.metafields = extractMetafields(row, @)]

\* the body of the row loop, for a row with a handle
AccumulateRow(product, row) ==
  LET variant == ParsedVariant(row)
      image == ParsedImage(row)
      variants ==
        IF /\ row.VariantPrice # NumNull
           /\ ParseFloat(row.VariantPrice) > 0
           /\ ~Exists(product.variants,
                      LAMBDA v : v.sku = variant.sku
                                 /\ v.option1Value = variant.option1Value)
        THEN Append(product.variants, variant)
        ELSE product.variants
      images ==
        IF row.ImageSrc # ""
           /\ ~Exists(product.images, LAMBDA img : img.src = image.src)
        THEN Append(product.images, image)
        ELSE product.images
  IN  [product EXCEPT !.variants = variants,
                      !.images = images,
                      !.metafields = extractMetafields(row, @)]

RECURSIVE InsertByPosition(_, _)
\* an unstable sort: an image goes before the images of its position
InsertByPosition_BeforeEqual(sorted, img) ==
  IF sorted = <<>> THEN <<img>>
  ELSE IF img.position <= sorted[1].position THEN <<img>> \o sorted
  ELSE <<sorted[1]>> \o InsertByPosition(Tail(sorted), img)

InsertByPosition(sorted, img) ==
  IF sorted = <<>> THEN <<img>>
  ELSE IF img.position < sorted[1].position THEN <<img>> \o sorted
  ELSE <<sorted[1]>> \o InsertByPosition(Tail(sorted), img)

RECURSIVE SortImages(_)
\* images.sort((a, b) => a.position - b.position), a stable sort
SortImages(images) ==
  IF images = <<>> THEN <<>>
  ELSE InsertByPosition(SortImages(SubSeq(images, 1, Len(images) - 1)),
                        images[Len(images)])

RECURSIVE GroupRows(_, _)
\* the row loop accumulating every row into the first product of the map
GroupRows_IntoFirst(rows, products) ==
  IF rows = <<>> THEN products
  ELSE LET row == rows[1]
           known == FindFirst(products, LAMBDA p : p.handle = row.Handle)
           withNew == IF known = NoId
                      THEN Append(products, NewParsedProduct(row))
                      ELSE products
       IN  IF row.Handle = "" THEN GroupRows(Tail(rows), products)
           ELSE GroupRows(Tail(rows),
                  [withNew EXCEPT ![1] = AccumulateRow(@, row)])

GroupRows(rows, products) ==
  IF rows = <<>> THEN products
  ELSE LET row == rows[1]
           known == FindFirst(products, LAMBDA p : p.handle = row.Handle)
           withNew == IF known = NoId
                      THEN Append(products, NewParsedProduct(row))
                      ELSE products
           at == IF known = NoId THEN Len(withNew) ELSE known
       IN  IF row.Handle = "" THEN GroupRows(Tail(rows), products)
           ELSE GroupRows(Tail(rows),
                  [withNew EXCEPT ![at] = AccumulateRow(@, row)])

\* ShopifyDataParser.groupProductData: the aggregated products in first-seen
\* order of their handles (the Map's iteration order)
groupProductData(rows) ==
  LET grouped == GroupRows(rows, <<>>)
  IN  [i \in 1..Len(grouped) |->
         [grouped[i] EXCEPT !.images = SortImages(@)]]

\* ------------------------------------------------------ product migration
\* the builder without the check for a node of the exact path
createCategoryHierarchy_NoSkip(c, categoryPath) ==
  LET parts == SplitPath(categoryPath)
      categoryName == parts[Len(parts)]
      parentPath == JoinPath(SubSeq(parts, 1, Len(parts) - 1))
      c1 == Call(c)
      hasParent == Len(parts) > 1
      c2 == IF hasParent THEN Call(c1) ELSE c1
      parentId == IF hasParent
                  THEN FindFirst(c.db.categories,
                                 LAMBDA k : k.shopifyCategory = parentPath)
                  ELSE NoId
      uniqueName == IF hasParent
                    THEN categoryName \o <<" ", "(">> \o parts[Len(parts) - 1]
                           \o <<")">>
                    ELSE categoryName
      c3 == Call(c2)
      taken == FindFirst(c.db.categories, LAMBDA k : k.name = categoryName)
      finalName == IF taken # NoId THEN uniqueName ELSE categoryName
      c4 == Call(c3)
      node == [id |-> Len(c.db.categories) + 1,
               name |-> finalName,
               slug |-> generateSlug(finalName),
               shopifyCategory |-> categoryPath,
               parentId |-> parentId,
               level |-> Len(parts) - 1,
               createdAt |-> c.now,
               updatedAt |-> c.now]
  IN  IF c1.thrown THEN c1
      ELSE IF c2.thrown THEN c2
      ELSE IF c3.thrown THEN c3
      ELSE IF c4.thrown THEN c4
      ELSE IF Exists(c.db.categories,
                     LAMBDA k : k.name = node.name \/ k.slug = node.slug)
           THEN Throw(c4)
      ELSE [c4 EXCEPT !.db.categories = Append(@, node)]

createCategoryHierarchy(c, categoryPath) ==
  LET parts == SplitPath(categoryPath)
      categoryName == parts[Len(parts)]
      parentPath == JoinPath(SubSeq(parts, 1, Len(parts) - 1))
      c1 == Call(c)                                   \* category.findFirst
      existing == FindFirst(c.db.categories,
                            LAMBDA k : k.shopifyCategory = categoryPath)
      hasParent == Len(parts) > 1
      c2 == IF hasParent THEN Call(c1) ELSE c1        \* category.findFirst
      parentId == IF hasParent
                  THEN FindFirst(c.db.categories,
                                 LAMBDA k : k.shopifyCategory = parentPath)
                  ELSE NoId
      uniqueName == IF hasParent
                    THEN categoryName \o <<" ", "(">> \o parts[Len(parts) - 1]
                           \o <<")">>
                    ELSE categoryName
      c3 == Call(c2)                                  \* category.findFirst
      existingWithSameName ==
        FindFirst(c.db.categories, LAMBDA k : k.name = categoryName)
      finalName == IF existingWithSameName # NoId THEN uniqueName
                   ELSE categoryName
      finalSlug == IF existingWithSameName # NoId THEN generateSlug(uniqueName)
                   ELSE generateSlug(categoryName)
      c4 == Call(c3)                                  \* category.create
      node == [id |-> Len(c.db.categories) + 1,
               name |-> finalName,
               slug |-> finalSlug,
               shopifyCategory |-> categoryPath,
               parentId |-> parentId,
               level |-> Len(parts) - 1,
               createdAt |-> c.now,
               updatedAt |-> c.now]
  IN  IF c1.thrown THEN c1
      ELSE IF existing # NoId THEN c1
      ELSE IF c2.thrown THEN c2
      ELSE IF c3.thrown THEN c3
      ELSE IF c4.thrown THEN c4
      ELSE IF Exists(c.db.categories,
                     LAMBDA k : k.name = finalName \/ k.slug = finalSlug)
           THEN Throw(c4)                             \* @unique name, slug
      ELSE [c4 EXCEPT !.db.categories = Append(@, node)]

\* the category paths of the products without their strict prefixes
CategoryPrefixes_FullPaths(products) ==
  {products[p].productCategory :
     p \in {q \in 1..Len(products) : products[q].productCategory # <<>>}}

\* every prefix of every product's category path
CategoryPrefixes(products) ==
  UNION {LET parts == SplitPath(products[p].productCategory)
         IN  {JoinPath(SubSeq(parts, 1, i)) : i \in 1..Len(parts)}
         : p \in {q \in 1..Len(products) :
                    products[q].productCategory # <<>>}}

RECURSIVE CreateCategories(_, _)
CreateCategories(c, paths) ==
  IF paths = <<>> \/ c.thrown THEN c
  ELSE CreateCategories(createCategoryHierarchy(c, paths[1]), Tail(paths))

migrateCategories(c, products) ==
  CreateCategories(c, SortStrings(CategoryPrefixes(products)))

RECURSIVE CreateChildren(_, _, _)
\* for (const x of list) await prisma.<coll>.create({ data: ... })
CreateChildren(c, coll, recs) ==
  IF recs = <<>> THEN c
  ELSE LET c1 == Call(c)
       IN  IF c1.thrown THEN c1
           ELSE CreateChildren(
                  [c1 EXCEPT !.db[coll] =
                     Append(@, [recs[1] EXCEPT !.id = Len(c1.db[coll]) + 1])],
                  coll, Tail(recs))

MapSeq(seq, F(_)) == [i \in 1..Len(seq) |-> F(seq[i])]

\* html.replace(/<[^>]*>/g, '').trim()
stripHtml(html) == Trim(StripTags(html))

migrateProduct(c, productData) ==
  LET c1 == Call(c)                                   \* category.findFirst
      category ==
        FindFirst(c.db.categories,
                  LAMBDA k : k.shopifyCategory = productData.productCategory)
      c2 == Call(c1)                                  \* product.findUnique
      existingProduct ==
        FindFirst(c.db.products, LAMBDA p : p.handle = productData.handle)
      hasVariant == productData.variants # <<>>
      primaryVariant == productData.variants[1]
      pid == Len(c.db.products) + 1
      product ==
        [id |-> pid,
         handle |-> productData.handle,
         title |-> productData.title,
         bodyHtml |-> productData.bodyHtml,
         vendor |-> productData.vendor,
         productType |-> productData.type,
         tags |-> productData.tags,
         published |-> productData.published,
         seoTitle |-> productData.seoTitle,
         seoDescription |-> productData.seoDescription,
         status |-> ToUpperCase(productData.status),
         name |-> productData.title,
         description |-> stripHtml(productData.bodyHtml),
         imageUrl |-> IF productData.images = <<>> THEN NULL
                      ELSE productData.images[1].src,
         price |-> IF hasVariant THEN primaryVariant.price ELSE 0,
         stock |-> SumInventory(
                     [i \in 1..Len(productData.variants) |->
                        [inventory_quantity |->
                           productData.variants[i].inventoryQty]]),
         compareAtPrice |-> IF hasVariant THEN primaryVariant.compareAtPrice
                            ELSE 0,
         costPerItem |-> IF hasVariant THEN primaryVariant.costPerItem ELSE 0,
         categoryId |-> category,
         createdAt |-> c.now,
         updatedAt |-> c.now]
      c3 == ProductCreate(Call(c2), product)          \* product.create
      c4 == CreateChildren(c3, "variants",
              MapSeq(productData.variants,
                LAMBDA v :
                  [id |-> NoId, productId |-> pid, title |-> v.title,
                   sku |-> v.sku, price |-> v.price,
                   compareAtPrice |-> v.compareAtPrice,
                   costPerItem |-> v.costPerItem,
                   inventoryQty |-> v.inventoryQty, weight |-> v.weight,
                   option1Value |-> v.option1Value]))
      c5 == CreateChildren(c4, "images",
              MapSeq(SelectSeq(productData.images, LAMBDA img : img.src # ""),
                LAMBDA img :
                  [id |-> NoId, productId |-> pid, src |-> img.src,
                   altText |-> img.altText, position |-> img.position]))
      c6 == CreateChildren(c5, "metafields",
              MapSeq(SelectSeq(productData.metafields,
                               LAMBDA m : m.value # ""),
                LAMBDA m :
                  [id |-> NoId, productId |-> pid, namespace |-> m.namespace,
                   key |-> m.key, value |-> m.value, type |-> m.type]))
  IN  IF c1.thrown THEN c1
      ELSE IF c2.thrown THEN c2
      ELSE IF existingProduct # NoId THEN c2
      ELSE IF c3.thrown THEN c3
      ELSE IF c4.thrown THEN c4
      ELSE IF c5.thrown THEN c5
      ELSE c6

RECURSIVE MigrateProducts(_, _, _)
\* for (const [handle, productData] of products) try { migrateProduct }
\* catch { errorCount++ }
MigrateProducts(c, products, tally) ==
  IF products = <<>> THEN [c |-> c, tally |-> tally]
  ELSE LET Counted(r) ==
             IF r.thrown
             THEN MigrateProducts([r EXCEPT !.thrown = FALSE], Tail(products),
                                  [tally EXCEPT !.errorCount = @ + 1])
             ELSE MigrateProducts(r, Tail(products),
                                  [tally EXCEPT !.successCount = @ + 1])
       IN  Counted(migrateProduct(c, products[1]))

NoTally == [successCount |-> 0, errorCount |-> 0]

\* a parser that recovers the rows it can from a malformed file
Readable_Lenient(file) == file.exists

\* fs.readFileSync and csv-parse both succeed on the file
Readable(file) == file.exists /\ file.parses

\* ProductMigrator.migrateFromCSV: thrown is the fatal error that makes the
\* CLI exit with 1
migrateFromCSV(db, now, file, failAt) ==
  LET c0 == Enter(NewCtx(db, now, failAt), "migrateFromCSV")
      Products(c1, products) ==
        IF c1.thrown THEN [c |-> c1, tally |-> NoTally]
        ELSE MigrateProducts(c1, products, NoTally)
      Categories(products) ==
        Products(migrateCategories(c0, products), products)
  IN  IF ~Readable(file) THEN [c |-> Throw(c0), tally |-> NoTally]
      ELSE Categories(groupProductData(file.rows))

\* ----------------------------------------------------- customer migration
\* Numeric columns of an export are digit strings, '' when blank; dates are
\* digit strings too.
NoSkipTally == [successCount |-> 0, errorCount |-> 0, skippedCount |-> 0]

\* x ? new Date(x) : new Date()
DateOrNow(ds, now) == IF ds = <<>> THEN now ELSE DigitsValue(ds)

UserFromExport(customer, id, now) ==
  [id |-> id,
   email |-> customer.email,
   password |-> defaultPassword,
   firstName |-> customer.first_name,
   lastName |-> customer.last_name,
   phone |-> customer.phone,
   shopifyCustomerId |-> customer.id,
   acceptsMarketing |-> (customer.accepts_marketing = "yes"),
   totalSpent |-> ParseFloatOr0(customer.total_spent),
   orderCount |-> ParseFloatOr0(customer.order_count),
   customerTags |-> customer.tags,
   customerNote |-> customer.note,
   verifiedEmail |-> (customer.verified_email = "yes"),
   address |-> formatAddress(customer.default_address),
   createdAt |-> DateOrNow(customer.created_at, now),
   updatedAt |-> DateOrNow(customer.updated_at, now)]

\* CustomerMigrator.migrateCustomer
migrateCustomer(c, customer) ==
  LET Create(c1) ==                                   \* user.create
        IF c1.thrown THEN c1
        ELSE UserCreate(c1, UserFromExport(customer, Len(c1.db.users) + 1,
                                           c1.now))
  IN  Create(Call(c))

RECURSIVE MigrateCustomers(_, _, _, _)
\* for (const customer of customers) try { skip or migrateCustomer }
\* catch { errorCount++ }
MigrateCustomers(c, customers, existingEmails, tally) ==
  IF customers = <<>> THEN [c |-> c, tally |-> tally]
  ELSE IF customers[1].email = "" \/ customers[1].email \in existingEmails
  THEN MigrateCustomers(c, Tail(customers), existingEmails,
                        [tally EXCEPT !.skippedCount = @ + 1])
  ELSE LET Counted(r) ==
             IF r.thrown
             THEN MigrateCustomers([r EXCEPT !.thrown = FALSE],
                                   Tail(customers), existingEmails,
                                   [tally EXCEPT !.errorCount = @ + 1])
             ELSE MigrateCustomers(r, Tail(customers), existingEmails,
                                   [tally EXCEPT !.successCount = @ + 1])
       IN  Counted(migrateCustomer(c, customers[1]))

\* CustomerMigrator.migrateFromCSV: thrown is the fatal error it rethrows
CustomerMigrator_migrateFromCSV(c0, file) ==
  LET c == Enter(c0, "CustomerMigrator.migrateFromCSV")
      Loaded(c1) ==                                   \* user.findMany
        IF c1.thrown THEN [c |-> c1, tally |-> NoSkipTally]
        ELSE MigrateCustomers(
               c1, file.rows,
               {c1.db.users[i].email : i \in 1..Len(c1.db.users)},
               NoSkipTally)
  IN  IF ~Readable(file) THEN [c |-> Throw(c), tally |-> NoSkipTally]
      ELSE Loaded(Call(c))

\* -------------------------------------------------------- order migration
\* parseInt(row.lineitem_quantity || '1')
ParseIntOr1(ds) == IF ds = <<>> THEN 1 ELSE DigitsValue(ds)

LineItemFromRow(row) ==
  [name |-> row.lineitem_name,
   sku |-> row.lineitem_sku,
   quantity |-> ParseIntOr1(row.lineitem_quantity),
   price |-> ParseFloatOr0(row.lineitem_price),
   variantId |-> row.lineitem_variant_id,
   productId |-> row.lineitem_product_id]

RECURSIVE GroupOrders(_, _)
\* one entry per row.id, in the order the ids first occur; every row with a
\* line item name adds a line item to the entry of its id
GroupOrders(rows, orders) ==
  IF rows = <<>> THEN orders
  ELSE LET row == rows[1]
           known == \E i \in 1..Len(orders) : orders[i].id = row.id
           opened == IF known THEN orders
                     ELSE Append(orders, [row |-> row, id |-> row.id,
                                          lineItems |-> <<>>])
           at == CHOOSE i \in 1..Len(opened) : opened[i].id = row.id
       IN  GroupOrders(
             Tail(rows),
             IF row.lineitem_name = "" THEN opened
             ELSE [opened EXCEPT
                     ![at].lineItems = Append(@, LineItemFromRow(row))])

groupOrdersByOrderId(rows) == GroupOrders(rows, <<>>)

OrderFromExport(orderData, id, userId, now) ==
  [id |-> id,
   userId |-> userId,
   customerEmail |-> orderData.row.email,
   status |-> statusMapping(orderData.row.financial_status),
   totalAmount |-> ParseFloatOr0(orderData.row.total_price),
   shopifyOrderId |-> orderData.id,
   shopifyOrderName |-> orderData.row.name,
   financialStatus |-> orderData.row.financial_status,
   fulfillmentStatus |-> orderData.row.fulfillment_status,
   currency |-> IF orderData.row.currency = "" THEN "USD"
                ELSE orderData.row.currency,
   subtotalPrice |-> ParseFloatOr0(orderData.row.subtotal_price),
   totalTax |-> ParseFloatOr0(orderData.row.total_tax),
   shippingPrice |-> ParseFloatOr0(orderData.row.shipping_price),
   totalDiscounts |-> ParseFloatOr0(orderData.row.total_discounts),
   orderTags |-> orderData.row.tags,
   orderNote |-> orderData.row.note,
   billingAddress |-> formatAddress(orderData.row.billing),
   shippingAddress |-> formatAddress(orderData.row.shipping),
   createdAt |-> DateOrNow(orderData.row.created_at, now),
   updatedAt |-> DateOrNow(orderData.row.updated_at, now)]

OrderItemFromExport(lineItem, id, orderId) ==
  [id |-> id,
   orderId |-> orderId,
   productName |-> lineItem.name,
   quantity |-> lineItem.quantity,
   price |-> lineItem.price,
   sku |-> lineItem.sku,
   shopifyVariantId |-> lineItem.variantId,
   shopifyProductId |-> lineItem.productId]

RECURSIVE CreateExportItems(_, _, _)
\* for (const lineItem of orderData.lineItems) await orderItem.create(...)
CreateExportItems(c, orderId, items) ==
  IF items = <<>> THEN c
  ELSE LET Created(c1) ==
             IF c1.thrown THEN c1
             ELSE CreateExportItems(
                    [c1 EXCEPT !.db.orderItems =
                       Append(@, OrderItemFromExport(items[1], Len(@) + 1,
                                                     orderId))],
                    orderId, Tail(items))
       IN  Created(Call(c))

\* OrderMigrator.migrateOrder
migrateOrder(c, orderData) ==
  LET Create(c2, user) ==                             \* order.create
        IF c2.thrown THEN c2
        ELSE CreateExportItems(
               [c2 EXCEPT !.db.orders =
                  Append(@, OrderFromExport(orderData, Len(@) + 1, user,
                                            c2.now))],
               Len(c2.db.orders) + 1, orderData.lineItems)
      Find(c1) ==                                     \* user.findUnique
        IF c1.thrown THEN c1
        ELSE Create(Call(c1),
                    FindFirst(c1.db.users,
                              LAMBDA u : u.email = orderData.row.email))
  IN  Find(Call(c))

RECURSIVE MigrateOrders(_, _, _, _)
\* the loop without its try/catch around one order: the first failure ends
\* the batch
MigrateOrders_Aborts(c, orders, existingOrderIds, tally) ==
  IF orders = <<>> THEN [c |-> c, tally |-> tally]
  ELSE IF orders[1].id \in existingOrderIds
  THEN MigrateOrders(c, Tail(orders), existingOrderIds,
                     [tally EXCEPT !.skippedCount = @ + 1])
  ELSE LET Counted(r) ==
             IF r.thrown
             THEN [c |-> [r EXCEPT !.thrown = FALSE],
                   tally |-> [tally EXCEPT !.errorCount = @ + 1]]
             ELSE MigrateOrders(r, Tail(orders), existingOrderIds,
                                [tally EXCEPT !.successCount = @ + 1])
       IN  Counted(migrateOrder(c, orders[1]))

\* for (const [orderId, orderData] of groupedOrders) try { skip or
\* migrateOrder } catch { errorCount++ }
MigrateOrders(c, orders, existingOrderIds, tally) ==
  IF orders = <<>> THEN [c |-> c, tally |-> tally]
  ELSE IF orders[1].id \in existingOrderIds
  THEN MigrateOrders(c, Tail(orders), existingOrderIds,
                     [tally EXCEPT !.skippedCount = @ + 1])
  ELSE LET Counted(r) ==
             IF r.thrown
             THEN MigrateOrders([r EXCEPT !.thrown = FALSE], Tail(orders),
                                existingOrderIds,
                                [tally EXCEPT !.errorCount = @ + 1])
             ELSE MigrateOrders(r, Tail(orders), existingOrderIds,
                                [tally EXCEPT !.successCount = @ + 1])
       IN  Counted(migrateOrder(c, orders[1]))

\* OrderMigrator.migrateFromCSV: thrown is the fatal error it rethrows
OrderMigrator_migrateFromCSV(c0, file) ==
  LET c == Enter(c0, "OrderMigrator.migrateFromCSV")
      Loaded(c1) ==                                   \* order.findMany
        IF c1.thrown THEN [c |-> c1, tally |-> NoSkipTally]
        ELSE MigrateOrders(
               c1, groupOrdersByOrderId(file.rows),
               \* existingOrders.map(o => o.shopifyOrderId).filter(Boolean)
               {c1.db.orders[i].shopifyOrderId : i \in 1..Len(c1.db.orders)}
                 \ {NumNull},
               NoSkipTally)
  IN  IF ~Readable(file) THEN [c |-> Throw(c), tally |-> NoSkipTally]
      ELSE Loaded(Call(c))

\* runOrderMigration: try { migrateFromCSV } catch { console.error } finally
\* { $disconnect }; the error is logged and not rethrown
runOrderMigration(c, file) ==
  LET Caught(out) == [c |-> [out.c EXCEPT !.thrown = FALSE],
                      tally |-> out.tally, fatal |-> out.c.thrown]
  IN  Caught(OrderMigrator_migrateFromCSV(c, file))

\* runCustomerMigration: the same shape
runCustomerMigration(c, file) ==
  LET Caught(out) == [c |-> [out.c EXCEPT !.thrown = FALSE],
                      tally |-> out.tally, fatal |-> out.c.thrown]
  IN  Caught(CustomerMigrator_migrateFromCSV(c, file))

\* ------------------------------------------------------------------- CLI
\* What one run of the CLI leaves behind: the store, the process exit code,
\* the tally each migrator printed and the migrators that ended with a fatal
\* error.
Exited(c, code) ==
  [c |-> c, exit |-> code, products |-> NoTally, customers |-> NoSkipTally,
   orders |-> NoSkipTally, fatal |-> {}, ran |-> {}]

Fatal(flag, name) == IF flag THEN {name} ELSE {}

runProductMigration(db, now, files, failAt) ==
  LET Done(out) ==
        [Exited(out.c, IF out.c.thrown THEN 1 ELSE 0) EXCEPT
           !.products = out.tally, !.ran = {"products"},
           !.fatal = Fatal(out.c.thrown, "products")]
  IN  Done(migrateFromCSV(db, now, files.products, failAt))

runCustomers(db, now, files, failAt) ==
  LET c == Enter(NewCtx(db, now, failAt), "runCustomers")
      Done(out) ==
        [Exited(out.c, IF out.c.thrown THEN 1 ELSE 0) EXCEPT
           !.customers = out.tally, !.ran = {"customers"},
           !.fatal = Fatal(out.fatal, "customers")]
  IN  IF ~files.customers.exists THEN Exited(c, 1)
      ELSE Done(runCustomerMigration(c, files.customers))

runOrders(db, now, files, failAt) ==
  LET c == Enter(NewCtx(db, now, failAt), "runOrders")
      Done(out) ==
        [Exited(out.c, IF out.c.thrown THEN 1 ELSE 0) EXCEPT
           !.orders = out.tally, !.ran = {"orders"},
           !.fatal = Fatal(out.fatal, "orders")]
  IN  IF ~files.orders.exists THEN Exited(c, 1)
      ELSE Done(runOrderMigration(c, files.orders))

runFullMigration(db, now, files, failAt) ==
  LET WithOrders(acc, out) ==
        [acc EXCEPT !.c = out.c, !.orders = out.tally,
                    !.ran = @ \cup {"orders"},
                    !.fatal = @ \cup Fatal(out.fatal, "orders")]
      ThenOrders(acc) ==
        IF ~files.orders.exists THEN acc
        ELSE WithOrders(acc, runOrderMigration(acc.c, files.orders))
      WithCustomers(acc, out) ==
        ThenOrders([acc EXCEPT !.c = out.c, !.customers = out.tally,
                           !.ran = @ \cup {"customers"},
                           !.fatal = @ \cup Fatal(out.fatal, "customers")])
      ThenCustomers(acc) ==
        IF acc.c.thrown THEN [acc EXCEPT !.exit = 1]
        ELSE IF ~files.customers.exists THEN ThenOrders(acc)
        ELSE WithCustomers(acc,
                           runCustomerMigration(acc.c, files.customers))
  IN  ThenCustomers(runProductMigration(db, now, files, failAt))

\* runTest -> testParser: parse and aggregate, print a sample, write nothing
runTest(db, now, files, failAt) ==
  LET c == Enter(NewCtx(db, now, failAt), "testParser")
  IN  IF ~Readable(files.products) THEN Exited(Throw(c), 1)
      ELSE Exited(c, 0)

Commands == {"products", "customers", "orders", "all", "test"}

\* main: switch (command)
main(command, db, now, files, failAt) ==
  CASE command = "products" -> runProductMigration(db, now, files, failAt)
    [] command = "customers" -> runCustomers(db, now, files, failAt)
    [] command = "orders" -> runOrders(db, now, files, failAt)
    [] command = "all" -> runFullMigration(db, now, files, failAt)
    [] command = "test" -> runTest(db, now, files, failAt)

\* ----------------------------------------------------- request payloads
Addr1 == <<"Ann Lee", "1 Pearl St", "", "Doha", "", "Qatar", "">>
Addr2 == <<"Ann Lee", "9 Corniche", "Flat 2", "Doha", "", "Qatar", "00000">>
NoAddr == <<>>

MugV1 ==
  [id |-> 11, handle |-> "mug", title |-> "Mug",
   body_html |-> <<"<p>", "A", " ", "<b>", "red", "</b>", " mug", "</p>">>,
   vendor |-> "Acme", product_type |-> "Kitchen", tags |-> <<<<"s">>>>,
   published_at |-> "2024-01-01", status |-> "active",
   images |-> <<[src |-> "a.png"], [src |-> "b.png"]>>,
   variants |-> <<[price |-> 10, inventory_quantity |-> 3],
                  [price |-> 12, inventory_quantity |-> 2]>>]

MugV2 ==
  [id |-> 11, handle |-> "mug", title |-> "Mug XL",
   body_html |-> HtmlNull,
   vendor |-> "Acme", product_type |-> "Kitchen", tags |-> <<>>,
   published_at |-> NULL, status |-> "draft",
   images |-> <<>>,
   variants |-> <<[price |-> 15, inventory_quantity |-> 0]>>]

Mat ==
  [id |-> 12, handle |-> "mat", title |-> "Yoga Mat",
   body_html |-> <<"Mat">>,
   vendor |-> NULL, product_type |-> NULL, tags |-> <<>>,
   published_at |-> "2024-02-01", status |-> NULL,
   images |-> <<[src |-> "m.png"]>>,
   variants |-> <<>>]

ProductPayloads == {MugV1, MugV2, Mat}

Order1001V1 ==
  [id |-> 1001, email |-> "ann@example.com", name |-> "#1001",
   financial_status |-> "pending", fulfillment_status |-> NULL,
   currency |-> "QAR",
   total_price |-> <<3, 5>>, subtotal_price |-> <<3, 0>>,
   total_tax |-> NumNull, shipping_amount |-> <<5>>,
   total_discounts |-> NumNull,
   billing_address |-> Addr1, shipping_address |-> Addr1,
   line_items |->
     <<[name |-> "Mug", quantity |-> 2, price |-> <<1, 0>>, sku |-> "M1",
        variant_id |-> 71, product_id |-> 11],
       [name |-> "Yoga Mat", quantity |-> 1, price |-> <<1, 0>>, sku |-> NULL,
        variant_id |-> NoId, product_id |-> 12]>>]

Order1001V2 ==
  [id |-> 1001, email |-> "ann@example.com", name |-> "#1001",
   financial_status |-> "paid", fulfillment_status |-> "fulfilled",
   currency |-> "QAR",
   total_price |-> <<1, 5>>, subtotal_price |-> <<1, 0>>,
   total_tax |-> NumNull, shipping_amount |-> <<5>>,
   total_discounts |-> NumNull,
   billing_address |-> Addr1, shipping_address |-> Addr2,
   line_items |->
     <<[name |-> "Mug", quantity |-> 1, price |-> <<1, 0>>, sku |-> "M1",
        variant_id |-> 71, product_id |-> 11]>>]

OrderPayloads == {Order1001V1, Order1001V2}

AnnV1 ==
  [id |-> 501, email |-> "ann@example.com", first_name |-> "Ann",
   last_name |-> "Lee", phone |-> NULL, accepts_marketing |-> FALSE,
   total_spent |-> NumNull, orders_count |-> <<0>>,
   verified_email |-> TRUE, default_address |-> Addr1]

AnnV2 ==
  [id |-> 501, email |-> "ann@example.com", first_name |-> "Ann",
   last_name |-> "Lee-Khan", phone |-> "+974 555", accepts_marketing |-> TRUE,
   total_spent |-> <<3, 5>>, orders_count |-> <<1>>,
   verified_email |-> TRUE, default_address |-> Addr2]

Bob ==
  [id |-> 502, email |-> "bob@example.com", first_name |-> NULL,
   last_name |-> NULL, phone |-> NULL, accepts_marketing |-> FALSE,
   total_spent |-> NumNull, orders_count |-> NumNull,
   verified_email |-> FALSE, default_address |-> NoAddr]

CustomerPayloads == {AnnV1, AnnV2, Bob}

\* request.text(): the raw body; JSON.parse succeeds on json bodies only
JsonBody(d) == [json |-> TRUE, data |-> d]
GarbageBody == [json |-> FALSE, data |-> [text |-> "{"]]

UnhandledTopics == {"app/uninstalled"}

\* topic header and raw body of the deliveries considered
Deliveries ==
  {<<t, JsonBody(d)>> : t \in ProductTopics, d \in ProductPayloads}
    \cup {<<t, JsonBody(d)>> : t \in OrderTopics, d \in OrderPayloads}
    \cup {<<t, JsonBody(d)>> : t \in CustomerTopics, d \in CustomerPayloads}
    \cup {<<t, JsonBody(Mat)>> : t \in UnhandledTopics}
    \cup {<<t, GarbageBody>> : t \in {"products/create"}}

ShortHeader == [len |-> 10, val |-> <<"bogus">>]

\* the body the sender signed, when the body was altered in transit
SignedOriginal(body) ==
  IF body = JsonBody(MugV1) THEN JsonBody(MugV2) ELSE JsonBody(MugV1)

\* x-shopify-hmac-sha256 values that are not the digest of this body: none,
\* an empty one, one of another length, and the signature of another body
ForgedHeaders(body) ==
  {NoHeader, EmptyHeader, ShortHeader,
   CalculatedHmac(SignedOriginal(body), WEBHOOK_SECRET)}

\* deliveries that also arrive with each forged header: one per handler
\* class
ForgedDeliveries ==
  {<<"products/delete", JsonBody(MugV1)>>,
   <<"orders/create", JsonBody(Order1001V2)>>,
   <<"customers/update", JsonBody(AnnV2)>>}

\* the requests considered: every delivery correctly signed, and the forged
\* ones
Requests ==
  {[topic |-> dl[1], hdr |-> CalculatedHmac(dl[2], WEBHOOK_SECRET),
    body |-> dl[2]] : dl \in Deliveries}
    \cup UNION {{[topic |-> dl[1], hdr |-> h, body |-> dl[2]] :
                   h \in ForgedHeaders(dl[2])} : dl \in ForgedDeliveries}

\* most store calls one request issues (find, find user, create, 2 items,
\* after one delegation)
MaxStoreCalls == 6

\* ------------------------------------------------------ product exports
BlankRow ==
  [Handle |-> "", Title |-> "", BodyHtml |-> <<>>, Vendor |-> "",
   ProductCategory |-> <<>>, Type |-> "", Tags |-> <<>>, Published |-> "",
   Option1Value |-> "", VariantSKU |-> "", VariantGrams |-> NumNull,
   VariantInventoryQty |-> NumNull, VariantPrice |-> NumNull,
   VariantCompareAtPrice |-> NumNull, ImageSrc |-> "",
   ImagePosition |-> NumNull, ImageAltText |-> "", SEOTitle |-> "",
   SEODescription |-> <<>>, CostPerItem |-> NumNull, Status |-> "",
   Color |-> "", ExerciseFeatures |-> ""]

MugRow ==
  [BlankRow EXCEPT
     !.Handle = "mug", !.Title = "Mug (export)",
     !.BodyHtml = <<" ", "<p>", "Mug", "</p>">>, !.Vendor = "Acme",
     !.ProductCategory = <<"H", " ", ">", " ", "K">>, !.Type = "Kitchen",
     !.Tags = << <<"s">>, <<" ", "k", " ">>, <<" ">> >>,
     !.Published = "true", !.Option1Value = "Red", !.VariantSKU = "M1",
     !.VariantGrams = <<3, 0, 0>>, !.VariantInventoryQty = <<3>>,
     !.VariantPrice = <<1, 0>>, !.ImageSrc = "a.png",
     !.ImagePosition = <<2>>, !.Status = "active", !.Color = "red"]

\* the variant repeated for its second image
MugImageRow ==
  [BlankRow EXCEPT
     !.Handle = "mug", !.Option1Value = "Red", !.VariantSKU = "M1",
     !.VariantPrice = <<1, 0>>, !.ImageSrc = "b.png",
     !.ImagePosition = <<1>>, !.Color = "blue"]

\* a continuation row: no variant price
MugContinuationRow ==
  [BlankRow EXCEPT !.Handle = "mug", !.ImageSrc = "a.png",
                   !.ExerciseFeatures = "none"]

MatRow ==
  [BlankRow EXCEPT
     !.Handle = "mat", !.Title = "Yoga Mat",
     !.ProductCategory = <<"S", " ", ">", " ", "K">>,
     !.VariantPrice = <<2, 0>>, !.VariantInventoryQty = <<7>>,
     !.Status = "Draft"]

\* an export file: whether csv-parse accepts it, and its rows
CsvCatalog ==
  [exists |-> TRUE, parses |-> TRUE,
   rows |-> <<MugRow, MugImageRow, MugContinuationRow, MatRow>>]
CsvMat ==
  [exists |-> TRUE, parses |-> TRUE,
   rows |-> <<[MatRow EXCEPT !.ProductCategory = <<"K">>,
                             !.Title = "Mat (export)"]>>]
CsvMalformed == [exists |-> TRUE, parses |-> FALSE, rows |-> <<MugRow>>]

ExportFiles == {CsvCatalog, CsvMat, CsvMalformed}

\* customers export
AnnCsvRow ==
  [id |-> <<5, 0, 1>>, email |-> "ann@example.com", first_name |-> "Ann",
   last_name |-> "Lee (export)", phone |-> "", created_at |-> <<>>,
   updated_at |-> <<>>, accepts_marketing |-> "yes", total_spent |-> <<3, 5>>,
   order_count |-> <<1>>, tags |-> "vip", note |-> "",
   verified_email |-> "yes",
   default_address |-> <<"1 Pearl St", "", "Doha", "", "Qatar", "">>]

CarolCsvRow ==
  [AnnCsvRow EXCEPT !.id = <<5, 0, 3>>, !.email = "carol@example.com",
                    !.first_name = "Carol", !.last_name = "Diaz",
                    !.created_at = <<2, 0, 2, 3>>, !.total_spent = <<>>,
                    !.order_count = <<>>, !.accepts_marketing = "no",
                    !.tags = ""]

\* the same address as Carol under another customer id
CarolAgainCsvRow ==
  [CarolCsvRow EXCEPT !.id = <<5, 0, 4>>, !.first_name = "Caroline"]

NoEmailCsvRow ==
  [CarolCsvRow EXCEPT !.id = <<5, 0, 5>>, !.email = "", !.first_name = "Dan"]

CsvCustomers ==
  [exists |-> TRUE, parses |-> TRUE,
   rows |-> <<AnnCsvRow, NoEmailCsvRow, CarolCsvRow>>]
CsvCustomersTwice ==
  [exists |-> TRUE, parses |-> TRUE,
   rows |-> <<CarolCsvRow, CarolAgainCsvRow, AnnCsvRow>>]
CsvCustomersMalformed ==
  [exists |-> TRUE, parses |-> FALSE, rows |-> <<CarolCsvRow>>]

\* orders export
Order1001CsvRow ==
  [id |-> <<1, 0, 0, 1>>, name |-> "#1001", email |-> "ann@example.com",
   created_at |-> <<2, 0, 2, 3>>, updated_at |-> <<>>,
   financial_status |-> "paid", fulfillment_status |-> "fulfilled",
   total_price |-> <<3, 5>>, subtotal_price |-> <<3, 0>>,
   total_tax |-> <<>>, total_discounts |-> <<>>, shipping_price |-> <<5>>,
   currency |-> "QAR", tags |-> "", note |-> "",
   billing |-> <<"Ann Lee", "1 Pearl St", "Doha", "", "Qatar", "">>,
   shipping |-> <<"Ann Lee", "1 Pearl St", "Doha", "", "Qatar", "">>,
   lineitem_name |-> "Mug", lineitem_sku |-> "M1",
   lineitem_quantity |-> <<2>>, lineitem_price |-> <<1, 0>>,
   lineitem_variant_id |-> <<7, 1>>, lineitem_product_id |-> <<1, 1>>]

\* second line item of order 1002: only the id and the line item columns
Order1002CsvRow ==
  [Order1001CsvRow EXCEPT !.id = <<1, 0, 0, 2>>, !.name = "#1002",
                          !.email = "carol@example.com",
                          !.financial_status = "pending", !.currency = "",
                          !.created_at = <<>>]

Order1002ItemCsvRow ==
  [Order1002CsvRow EXCEPT !.name = "", !.email = "", !.financial_status = "",
                          !.total_price = <<>>, !.subtotal_price = <<>>,
                          !.shipping_price = <<>>,
                          !.lineitem_name = "Yoga Mat", !.lineitem_sku = "",
                          !.lineitem_quantity = <<>>,
                          !.lineitem_price = <<1, 0>>]

\* an order exported without the id column filled in
NoIdOrderCsvRow ==
  [Order1002CsvRow EXCEPT !.id = <<>>, !.name = "#1003",
                          !.lineitem_name = ""]

CsvOrders ==
  [exists |-> TRUE, parses |-> TRUE,
   rows |-> <<Order1001CsvRow, Order1002CsvRow, Order1002ItemCsvRow>>]
CsvOrdersNoId ==
  [exists |-> TRUE, parses |-> TRUE,
   rows |-> <<Order1002CsvRow, NoIdOrderCsvRow>>]
CsvOrdersMalformed ==
  [exists |-> TRUE, parses |-> FALSE, rows |-> <<Order1001CsvRow>>]

\* a path with no file behind it
NoFile == [exists |-> FALSE, parses |-> FALSE, rows |-> <<>>]

\* the files found at the three paths the CLI reads
ExportsComplete ==
  [products |-> CsvCatalog, customers |-> CsvCustomers, orders |-> CsvOrders]
ExportsMalformed ==
  [products |-> CsvMalformed, customers |-> CsvCustomersMalformed,
   orders |-> CsvOrdersMalformed]
ExportsCustomersMalformed ==
  [products |-> CsvMat, customers |-> CsvCustomersMalformed,
   orders |-> CsvOrders]

\* the exports of the runs in which a store call may fail
FaultyExportSets ==
  {ExportsComplete, ExportsMalformed, ExportsCustomersMalformed}

ExportSets ==
  FaultyExportSets \cup
  {[products |-> CsvMat, customers |-> CsvCustomersTwice,
    orders |-> CsvOrdersNoId],
   [products |-> CsvCatalog, customers |-> NoFile, orders |-> CsvOrders],
   [products |-> NoFile, customers |-> CsvCustomers, orders |-> NoFile]}

\* store calls of the longest migration run considered
MaxMigrationCalls == 25

\* -------------------------------------------------------- webhook monitor
\* recentWebhooks and webhookFailures are Maps: their entries in insertion
\* order.
MAX_RECENT_WEBHOOKS == 1000

\* parseInt(process.env.WEBHOOK_FAILURE_THRESHOLD || '5')
alertThreshold == 5

MapHas(entries, key) == \E i \in DOMAIN entries : entries[i].key = key

MapGet(entries, key) ==
  entries[CHOOSE i \in DOMAIN entries : entries[i].key = key].value

\* Map.prototype.set: a present key keeps its place
MapSet(entries, key, value) ==
  IF MapHas(entries, key)
  THEN [i \in DOMAIN entries |->
          IF entries[i].key = key THEN [key |-> key, value |-> value]
          ELSE entries[i]]
  ELSE Append(entries, [key |-> key, value |-> value])

\* the monitor of a process that has recorded nothing; alerts are the
\* messages sendAlert has sent
NoEvents == [recentWebhooks |-> <<>>, webhookFailures |-> <<>>,
             alerts |-> <<>>]

\* mutant: the alert waits for one failure more than the threshold
handleWebhookFailure_Late(m, topic, error) ==
  LET old == IF MapHas(m.webhookFailures, topic)
             THEN MapGet(m.webhookFailures, topic)
             ELSE [count |-> 0, errors |-> <<>>]
      errors == Append(old.errors, error)
      failure ==
        [count |-> old.count + 1,
         errors |-> IF Len(errors) > 10
                    THEN SubSeq(errors, Len(errors) - 9, Len(errors))
                    ELSE errors]
  IN  [m EXCEPT
         !.webhookFailures = MapSet(@, topic, failure),
         !.alerts = IF failure.count > alertThreshold
                    THEN Append(@, [topic |-> topic, count |-> failure.count])
                    ELSE @]

\* private handleWebhookFailure(topic, error)
handleWebhookFailure(m, topic, error) ==
  LET old == IF MapHas(m.webhookFailures, topic)
             THEN MapGet(m.webhookFailures, topic)
             ELSE [count |-> 0, errors |-> <<>>]
      errors == Append(old.errors, error)
      failure ==
        [count |-> old.count + 1,
         errors |-> IF Len(errors) > 10
                    THEN SubSeq(errors, Len(errors) - 9, Len(errors))
                    ELSE errors]
  IN  [m EXCEPT
         !.webhookFailures = MapSet(@, topic, failure),
         !.alerts = IF failure.count >= alertThreshold
                    THEN Append(@, [topic |-> topic, count |-> failure.count])
                    ELSE @]

\* mutant: over the limit, drops the entry inserted last
recordWebhookEvent_EvictsNewest(m, topic, status, processingTime, error, eventId) ==
  LET event ==
        [id |-> eventId, topic |-> topic, status |-> status,
         attempts |-> IF MapHas(m.recentWebhooks, eventId)
                      THEN MapGet(m.recentWebhooks, eventId).attempts + 1
                      ELSE 1,
         error |-> error, processingTime |-> processingTime]
      set == MapSet(m.recentWebhooks, eventId, event)
      recorded ==
        [m EXCEPT !.recentWebhooks =
                    IF Len(set) > MAX_RECENT_WEBHOOKS
                    THEN SubSeq(set, 1, Len(set) - 1) ELSE set]
  IN  IF status = "failed"
      THEN handleWebhookFailure(recorded, topic,
                                IF error \in {NULL, ""} THEN "Unknown error"
                                ELSE error)
      ELSE recorded

\* WebhookMonitor.recordWebhookEvent; the route always passes an eventId
recordWebhookEvent(m, topic, status, processingTime, error, eventId) ==
  LET event ==
        [id |-> eventId, topic |-> topic, status |-> status,
         attempts |-> IF MapHas(m.recentWebhooks, eventId)
                      THEN MapGet(m.recentWebhooks, eventId).attempts + 1
                      ELSE 1,
         error |-> error, processingTime |-> processingTime]
      set == MapSet(m.recentWebhooks, eventId, event)
      recorded ==
        [m EXCEPT !.recentWebhooks =
                    IF Len(set) > MAX_RECENT_WEBHOOKS THEN Tail(set) ELSE set]
  IN  IF status = "failed"
      THEN handleWebhookFailure(recorded, topic,
                                IF error \in {NULL, ""} THEN "Unknown error"
                                ELSE error)
      ELSE recorded

RECURSIVE TotalProcessingTime(_)
\* events.reduce((sum, e) => sum + (e.processingTime || 0), 0)
TotalProcessingTime(entries) ==
  IF entries = <<>> THEN 0
  ELSE entries[1].value.processingTime + TotalProcessingTime(Tail(entries))

\* WebhookMonitor.getMonitoringStats.  successRate is the fraction
\* successCount / recentEvents and averageProcessingTime the fraction
\* totalProcessingTime / recentEvents; the comparisons made with them are
\* made on the fractions.
getMonitoringStats(m) ==
  [recentEvents |-> Len(m.recentWebhooks),
   successCount |->
     Cardinality({i \in DOMAIN m.recentWebhooks :
                    m.recentWebhooks[i].value.status = "success"}),
   totalProcessingTime |-> TotalProcessingTime(m.recentWebhooks),
   failuresByTopic |-> m.webhookFailures]

\* successRate < 95, successRate being 100 when there are no events
LowSuccessRate(stats) ==
  stats.recentEvents > 0 /\ stats.successCount * 100 < 95 * stats.recentEvents

\* averageProcessingTime > 5000, the average being 0 without events
HighProcessingTime(stats) ==
  /\ stats.recentEvents > 0
  /\ stats.totalProcessingTime > 5000 * stats.recentEvents

\* WebhookMonitor.checkWebhookHealth: healthy when no issue is found; the
\* issues are which of the three checks found one
checkWebhookHealth(m) ==
  LET stats == getMonitoringStats(m)
      failing == {i \in DOMAIN stats.failuresByTopic :
                    stats.failuresByTopic[i].value.count >= alertThreshold}
  IN  [healthy |-> /\ ~LowSuccessRate(stats)
                   /\ failing = {}
                   /\ ~HighProcessingTime(stats),
       lowSuccessRate |-> LowSuccessRate(stats),
       highFailureTopics |-> {stats.failuresByTopic[i].key : i \in failing},
       highProcessingTime |-> HighProcessingTime(stats)]

\* error.message of what the route catches
RangeErrorMessage == "Input buffers must have the same byte length"
SyntaxErrorMessage == "Unexpected end of JSON input"
StoreErrorMessage == "Invalid prisma invocation"

\* The POST of the route that reports to the monitor: what the request did
\* and the monitor it leaves.  processingTime is Date.now() - startTime.
MonitoredPOST(db, now, req, failAt, m, webhookId, processingTime) ==
  LET topic == IF req.topic = NULL THEN "unknown" ELSE req.topic
      idle == NewCtx(db, now, 0)
      v == verifyShopifyWebhook(req.hdr, req.body, WEBHOOK_SECRET)
      RecordFailed(message) ==
        recordWebhookEvent(m, topic, "failed", processingTime, message,
                           webhookId)
      \* the catch block
      Caught(parsed, c, message) ==
        [out |-> Outcome(c.db, InternalServerError, parsed, c),
         monitor |-> RecordFailed(message)]
      Respond(c) ==
        IF c.thrown THEN Caught(TRUE, c, StoreErrorMessage)
        ELSE [out |-> Outcome(c.db, Success, TRUE, c),
              monitor |-> recordWebhookEvent(m, topic, "success",
                                             processingTime, NULL,
                                             webhookId)]
  IN  IF v = "throw" THEN Caught(FALSE, idle, RangeErrorMessage)
      ELSE IF v = "false"
      THEN [out |-> Outcome(db, Unauthorized, FALSE, idle),
            monitor |-> RecordFailed("Invalid signature")]
      ELSE IF ~req.body.json THEN Caught(TRUE, idle, SyntaxErrorMessage)
      ELSE Respond(Dispatch(NewCtx(db, now, failAt), topic, req.body.data))

\* ---------------------------------------------------------- health check
\* HEALTH_CHECK_CONSTANTS
DB_SLOW_RESPONSE_THRESHOLD == 1000
MEMORY_DEGRADED_THRESHOLD == 80
MEMORY_UNHEALTHY_THRESHOLD == 90
RSS_MEMORY_THRESHOLD == 1024

\* What a health check meets: whether client.product.count() answers and
\* after how many ms; for Stripe and Shopify, whether the service is
\* configured ("unset" if not), answers ok, answers with an error status
\* ("refused"), or the fetch fails ("unreachable"); heap used and heap
\* total in MB, and the resident set size in MB.
ServiceStates == {"unset", "ok", "refused", "unreachable"}

\* the environments considered: a store that is down answers at no time,
\* and Shopify is not seen refusing
Environments ==
  {env \in [storeUp : BOOLEAN, storeTime : {1000, 1001},
            stripe : ServiceStates, shopify : ServiceStates \ {"refused"},
            heapUsed : {80, 90, 95}, heapTotal : {100},
            rss : {1024, 1025}] :
     ~env.storeUp => env.storeTime = 1000}

\* a check that returned
Checked(service, status) ==
  [service |-> service, status |-> status, thrown |-> FALSE]

\* a check whose exception escaped
Escaped(service) == [service |-> service, status |-> NULL, thrown |-> TRUE]

\* mutant: the failure of the store call is not caught
checkDatabase_NoCatch(env) ==
  IF env.storeUp
  THEN Checked("database",
               IF env.storeTime > DB_SLOW_RESPONSE_THRESHOLD THEN "degraded"
               ELSE "healthy")
  ELSE Escaped("database")

\* private async checkDatabase()
checkDatabase(env) ==
  IF env.storeUp
  THEN Checked("database",
               IF env.storeTime > DB_SLOW_RESPONSE_THRESHOLD THEN "degraded"
               ELSE "healthy")
  ELSE Checked("database", "unhealthy")

\* private async checkWebhookSystem()
checkWebhookSystem(m) ==
  Checked("webhooks",
          IF checkWebhookHealth(m).healthy THEN "healthy" ELSE "degraded")

\* services.push({ name, status }) for a configured service
ExternalServices(env) ==
  LET Status(state) == IF state = "ok" THEN "healthy" ELSE "unhealthy"
      stripe == IF env.stripe = "unset" THEN <<>>
                ELSE <<[name |-> "stripe", status |-> Status(env.stripe)]>>
      shopify == IF env.shopify = "unset" THEN <<>>
                 ELSE <<[name |-> "shopify", status |-> Status(env.shopify)]>>
  IN  stripe \o shopify

\* private async checkExternalServices()
checkExternalServices(env) ==
  LET services == ExternalServices(env)
  IN  Checked("external_services",
              IF \E i \in DOMAIN services : services[i].status = "unhealthy"
              THEN "degraded" ELSE "healthy")

\* private async checkSystemResources(); the heap percentage compared as
\* the fraction heapUsed / heapTotal
checkSystemResources(env) ==
  LET byHeap ==
        IF env.heapUsed * 100 > MEMORY_UNHEALTHY_THRESHOLD * env.heapTotal
        THEN "unhealthy"
        ELSE IF env.heapUsed * 100
                  > MEMORY_DEGRADED_THRESHOLD * env.heapTotal
        THEN "degraded"
        ELSE "healthy"
  IN  Checked("system_resources",
              IF env.rss > RSS_MEMORY_THRESHOLD /\ byHeap = "healthy"
              THEN "degraded" ELSE byHeap)

\* async performHealthCheck()
performHealthCheck(env, m) ==
  LET checks == <<checkDatabase(env), checkWebhookSystem(m),
                  checkExternalServices(env), checkSystemResources(env)>>
      hasUnhealthy == \E i \in DOMAIN checks : checks[i].status = "unhealthy"
      hasDegraded == \E i \in DOMAIN checks : checks[i].status = "degraded"
  IN  IF \E i \in DOMAIN checks : checks[i].thrown
      THEN [thrown |-> TRUE, overall |-> NULL, status |-> NULL,
            checks |-> <<>>]
      ELSE [thrown |-> FALSE,
            overall |-> IF hasUnhealthy THEN "unhealthy"
                        ELSE IF hasDegraded THEN "degraded"
                        ELSE "healthy",
            status |-> NULL, checks |-> checks]

\* async quickHealthCheck()
quickHealthCheck(env) ==
  [thrown |-> FALSE, overall |-> NULL,
   status |-> IF env.storeUp THEN "ok" ELSE "error", checks |-> <<>>]

ServiceUnavailable == 503

\* mutant: a degraded system is answered 503
GET_DegradedUnavailable(quick, env, m) ==
  LET result == IF quick THEN quickHealthCheck(env)
                ELSE performHealthCheck(env, m)
  IN  [result |-> result,
       code |-> IF result.thrown THEN ServiceUnavailable
                ELSE IF quick
                THEN (IF result.status = "ok" THEN Success
                      ELSE ServiceUnavailable)
                ELSE IF result.overall = "healthy" THEN Success
                ELSE ServiceUnavailable]

\* export async function GET(request) of the health endpoint: the result of
\* the check made and the status code of the response
GET(quick, env, m) ==
  LET result == IF quick THEN quickHealthCheck(env)
                ELSE performHealthCheck(env, m)
  IN  [result |-> result,
       code |-> IF result.thrown THEN ServiceUnavailable
                ELSE IF quick
                THEN (IF result.status = "ok" THEN Success
                      ELSE ServiceUnavailable)
                ELSE IF result.overall = "healthy" THEN Success
                ELSE IF result.overall = "degraded" THEN Success
                ELSE ServiceUnavailable]

\* ------------------------------------------------------------------ state
VARIABLES
  db,       \* the persisted store
  now,      \* clock: requests and runs begun so far
  last,     \* the latest request or run and what it did
  inflight, \* handler invocations begun by concurrent requests
  monitor   \* the webhook monitor's in-memory maps

vars == <<db, now, last, inflight, monitor>>

\* the topics of the events given to the monitor directly
MonitorTopics == {"orders/create", "products/update"}

\* the run of the CLI before the latest one
NoPrior ==
  [command |-> NULL, files |-> CHOOSE files \in ExportSets : TRUE,
   clean |-> FALSE]

NoRequest ==
  [kind |-> "none", topic |-> NULL, hdr |-> NoHeader, body |-> GarbageBody,
   file |-> CsvMalformed, failAt |-> 0, resp |-> 0, parsed |-> FALSE,
   calls |-> <<>>, thrown |-> FALSE, tally |-> NoTally, pre |-> EmptyDb,
   command |-> NULL, files |-> CHOOSE files \in ExportSets : TRUE,
   exit |-> 0, customers |-> NoSkipTally, orders |-> NoSkipTally,
   fatal |-> {}, ran |-> {}, prior |-> NoPrior, aggregated |-> <<>>,
   webhookId |-> <<>>, processingTime |-> 0, recorded |-> NoEvents,
   status |-> NULL, sinceReset |-> [t \in MonitorTopics |-> 0],
   health |-> checkWebhookHealth(NoEvents), quick |-> FALSE,
   env |-> CHOOSE env \in Environments : TRUE,
   result |-> quickHealthCheck(CHOOSE env \in Environments : TRUE)]

Signed(topic, data) ==
  [topic |-> topic, body |-> JsonBody(data),
   hdr |-> CalculatedHmac(JsonBody(data), WEBHOOK_SECRET)]

\* the store after the deliveries of an earlier process life, each a
\* request and the store call that failed in it
RECURSIVE Replay(_, _)
Replay(d, runs) ==
  IF runs = <<>> THEN d
  ELSE Replay(POST(d, 0, runs[1].req, runs[1].failAt).db, Tail(runs))

\* earlier deliveries that left one product, one customer and one of her
\* orders
SeededRun ==
  <<[req |-> Signed("products/create", MugV1), failAt |-> 0],
    [req |-> Signed("customers/create", AnnV1), failAt |-> 0],
    [req |-> Signed("orders/create", Order1001V1), failAt |-> 0]>>

\* an earlier delivery that failed part-way and left an order with the
\* first of its two line items
PartialRun ==
  <<[req |-> Signed("orders/create", Order1001V1), failAt |-> 5]>>

EarlierRuns == {<<>>, SeededRun, PartialRun}

\* The process starts on an empty store or on one earlier runs have filled.
Init ==
  /\ db \in {Replay(EmptyDb, runs) : runs \in EarlierRuns}
  /\ now = 0
  /\ last = NoRequest
  /\ inflight = <<>>
  /\ monitor = NoEvents

\* One POST to /api/webhooks/shopify, from the request to the response;
\* Faults are the store calls that may fail (a call the request never
\* reaches cannot).
Deliver(Faults, Limit) ==
  /\ now < Limit
  /\ \E req \in Requests :
       LET run == [f \in Faults |-> POST(db, now + 1, req, f)]
       IN  \E failAt \in (Faults \cap 0..run[0].ops) :
             LET out == run[failAt]
             IN  /\ db' = out.db
                 /\ now' = now + 1
                 /\ last' = [NoRequest EXCEPT
                               !.kind = "webhook", !.topic = req.topic,
                               !.hdr = req.hdr, !.body = req.body,
                               !.failAt = failAt, !.resp = out.resp,
                               !.parsed = out.parsed, !.calls = out.calls,
                               !.thrown = out.thrown, !.pre = db]
  /\ UNCHANGED <<inflight, monitor>>

\* One run of the product migration over an export file.
Migrate(Faults, Limit) ==
  /\ now < Limit
  /\ \E file \in ExportFiles :
       LET run == [f \in Faults |-> migrateFromCSV(db, now + 1, file, f)]
       IN  \E failAt \in (Faults \cap 0..run[0].c.ops) :
             LET out == run[failAt]
             IN  /\ db' = out.c.db
                 /\ now' = now + 1
                 /\ last' = [NoRequest EXCEPT
                               !.kind = "migrate", !.file = file,
                               !.failAt = failAt, !.calls = out.c.calls,
                               !.thrown = out.c.thrown, !.tally = out.tally,
                               !.pre = db]
  /\ UNCHANGED <<inflight, monitor>>

Webhook == Deliver({0}, MaxClock)
Migration == Migrate({0}, MaxClock)

Next == Webhook \/ Migration

\* every store call succeeds
Spec == Init /\ [][Next]_vars

FaultyWebhook == Deliver(0..MaxStoreCalls, MaxFaultyClock)
FaultyMigration == Migrate(0..MaxMigrationCalls, MaxFaultyClock)

FaultNext == FaultyWebhook \/ FaultyMigration

\* any one store call of a request or run may fail
FaultSpec == Init /\ [][FaultNext]_vars

\* -------------------------------------------------- monitored deliveries
\* the requests sent to the route that reports to the monitor: one per way
\* a request can end
MonitoredRequests ==
  {Signed("products/create", MugV1), Signed("products/delete", MugV1),
   Signed("orders/create", Order1001V1), Signed("app/uninstalled", Mat),
   [topic |-> "products/create", body |-> GarbageBody,
    hdr |-> CalculatedHmac(GarbageBody, WEBHOOK_SECRET)]}
    \cup {[topic |-> "products/delete", hdr |-> h, body |-> JsonBody(MugV1)] :
           h \in {NoHeader, ShortHeader}}

\* Date.now() and the random suffix of the webhookId: two requests of one
\* topic may draw the same
IdSuffixes == {0, 1}

\* milliseconds from startTime to the record
Latencies == {0, 7}

\* One POST to the route that reports to the monitor, from the request to
\* the response.
MonitoredDeliver(Faults, Limit) ==
  /\ now < Limit
  /\ \E req \in MonitoredRequests, suffix \in IdSuffixes,
        processingTime \in Latencies :
       LET webhookId == <<req.topic, suffix>>
           run == [f \in Faults |->
                     MonitoredPOST(db, now + 1, req, f, monitor, webhookId,
                                   processingTime)]
       IN  \E failAt \in (Faults \cap 0..run[0].out.ops) :
             LET out == run[failAt].out
             IN  /\ db' = out.db
                 /\ now' = now + 1
                 /\ monitor' = run[failAt].monitor
                 /\ last' = [NoRequest EXCEPT
                               !.kind = "monitored", !.topic = req.topic,
                               !.hdr = req.hdr, !.body = req.body,
                               !.failAt = failAt, !.resp = out.resp,
                               !.parsed = out.parsed, !.calls = out.calls,
                               !.thrown = out.thrown, !.pre = db,
                               !.webhookId = webhookId,
                               !.processingTime = processingTime,
                               !.recorded = monitor]
  /\ UNCHANGED inflight

MonitoredWebhook == MonitoredDeliver(0..MaxStoreCalls, MaxClock)

\* the deployment whose route reports to the monitor
MonitoredSpec == Init /\ [][MonitoredWebhook]_vars

\* ---------------------------------------------------------- monitor calls
\* Calls of the monitor in any order: events recorded for two topics, and
\* the daily job that resets the failure counters.
MaxMonitorCalls == 6

\* status: 'success' | 'failed' | 'retry'
EventStatuses == {"success", "failed", "retry"}

\* private resetFailureCounters(): webhookFailures.clear()
resetFailureCounters(m) == [m EXCEPT !.webhookFailures = <<>>]

MonitorInit ==
  /\ db = EmptyDb
  /\ now = 0
  /\ last = NoRequest
  /\ inflight = <<>>
  /\ monitor = NoEvents

\* recordWebhook(topic, data, status, processingTime, error, eventId)
Record ==
  /\ now < MaxMonitorCalls
  /\ \E topic \in MonitorTopics, status \in EventStatuses :
       /\ monitor' =
            recordWebhookEvent(monitor, topic, status, 0,
                               IF status = "failed" THEN StoreErrorMessage
                               ELSE NULL,
                               <<topic, 0>>)
       /\ last' = [NoRequest EXCEPT
                     !.kind = "record", !.topic = topic, !.status = status,
                     !.webhookId = <<topic, 0>>, !.recorded = monitor,
                     !.sinceReset =
                       [last.sinceReset EXCEPT
                          ![topic] = IF status = "failed" THEN @ + 1 ELSE @]]
  /\ now' = now + 1
  /\ UNCHANGED <<db, inflight>>

\* cron.schedule('0 0 * * *', ...): the daily reset
ResetCounters ==
  /\ now < MaxMonitorCalls
  /\ monitor' = resetFailureCounters(monitor)
  /\ last' = [NoRequest EXCEPT !.kind = "reset", !.recorded = monitor]
  /\ now' = now + 1
  /\ UNCHANGED <<db, inflight>>

MonitorNext == Record \/ ResetCounters

MonitorSpec == MonitorInit /\ [][MonitorNext]_vars

\* ----------------------------------------------------- webhook health
\* The health of the monitor after earlier calls and a few further ones.
MaxHealthCalls == 2

EventCall(topic, status, processingTime, suffix) ==
  [topic |-> topic, status |-> status, processingTime |-> processingTime,
   error |-> IF status = "failed" THEN StoreErrorMessage ELSE NULL,
   eventId |-> <<topic, suffix>>]

RECURSIVE RecordAll(_, _)
RecordAll(m, calls) ==
  IF calls = <<>> THEN m
  ELSE RecordAll(recordWebhookEvent(m, calls[1].topic, calls[1].status,
                                    calls[1].processingTime, calls[1].error,
                                    calls[1].eventId),
                 Tail(calls))

\* calls made before: none; four failed attempts of one event; nineteen
\* events that succeeded; one event that took exactly five seconds
EarlierCalls ==
  {<<>>,
   [i \in 1..4 |-> EventCall("orders/create", "failed", 0, 0)],
   [i \in 1..19 |-> EventCall("products/update", "success", 0, i)],
   <<EventCall("products/update", "success", 5000, 1)>>}

\* status and processing time of the further events
EventKinds ==
  {<<"success", 0>>, <<"success", 5002>>, <<"failed", 0>>}

HealthInit ==
  /\ db = EmptyDb
  /\ now = 0
  /\ last = NoRequest
  /\ inflight = <<>>
  /\ monitor \in {RecordAll(NoEvents, calls) : calls \in EarlierCalls}

\* recordWebhook(...) for a new event (suffix 20) or for one recorded before
RecordEvent ==
  /\ now < MaxHealthCalls
  /\ \E topic \in MonitorTopics, kind \in EventKinds, suffix \in {0, 20} :
       LET call == EventCall(topic, kind[1], kind[2], suffix)
       IN  /\ monitor' = RecordAll(monitor, <<call>>)
           /\ last' = [NoRequest EXCEPT
                         !.kind = "record", !.topic = topic,
                         !.status = call.status,
                         !.processingTime = call.processingTime,
                         !.webhookId = call.eventId, !.recorded = monitor]
  /\ now' = now + 1
  /\ UNCHANGED <<db, inflight>>

\* checkWebhookHealth()
CheckHealth ==
  /\ last' = [NoRequest EXCEPT !.kind = "health",
                               !.health = checkWebhookHealth(monitor)]
  /\ UNCHANGED <<db, now, inflight, monitor>>

HealthNext == RecordEvent \/ CheckHealth

HealthSpec == HealthInit /\ [][HealthNext]_vars

MaxEndpointCalls == 1

\* One GET of the health endpoint, quick or full, in any environment.
HealthEndpoint ==
  /\ now < MaxEndpointCalls
  /\ now' = now + 1
  /\ \E quick \in BOOLEAN, env \in Environments :
       LET out == GET(quick, env, monitor)
       IN  last' = [NoRequest EXCEPT
                     !.kind = "get", !.quick = quick, !.env = env,
                     !.resp = out.code, !.result = out.result]
  /\ UNCHANGED <<db, inflight, monitor>>

\* the health endpoint over the monitors earlier calls left
EndpointSpec == HealthInit /\ [][HealthEndpoint]_vars

\* ------------------------------------------------------- CLI invocations
\* a run that ended normally with every entity of its batches succeeding or
\* skipped
Clean(l) ==
  /\ l.kind = "cli"
  /\ l.exit = 0
  /\ l.fatal = {}
  /\ l.tally.errorCount = 0
  /\ l.customers.errorCount = 0
  /\ l.orders.errorCount = 0

MaxCliRuns == 2
MaxFaultyCliRuns == 1
MaxCliCalls == 40

\* One run of `tsx src/lib/migration/cli.ts <command>` from start to
\* process.exit.
Cli(Faults, Limit, Exports) ==
  /\ now < Limit
  /\ \E command \in Commands, files \in Exports :
       LET run == [f \in Faults |-> main(command, db, now + 1, files, f)]
       IN  \E failAt \in (Faults \cap 0..run[0].c.ops) :
             LET out == run[failAt]
             IN  /\ db' = out.c.db
                 /\ now' = now + 1
                 /\ last' = [NoRequest EXCEPT
                               !.kind = "cli", !.command = command,
                               !.files = files, !.failAt = failAt,
                               !.calls = out.c.calls, !.exit = out.exit,
                               !.tally = out.products,
                               !.customers = out.customers,
                               !.orders = out.orders, !.fatal = out.fatal,
                               !.ran = out.ran, !.pre = db,
                               !.prior = [command |-> last.command,
                                          files |-> last.files,
                                          clean |-> Clean(last)]]
  /\ UNCHANGED <<inflight, monitor>>

CliRun == Cli({0}, MaxCliRuns, ExportSets)

\* consecutive runs of the CLI, every store call succeeding
CliSpec == Init /\ [][CliRun]_vars

FaultyCliRun ==
  Cli(0..MaxCliCalls, MaxFaultyCliRuns, FaultyExportSets)

\* a run of the CLI in which any one store call may fail
FaultyCliSpec == Init /\ [][FaultyCliRun]_vars

\* ------------------------------------------------------ category builder
\* Runs of the product migration over exports whose products name any
\* subset of a pool of category paths, on a store that starts empty.
MaxCategoryRuns == 2

\* most category paths the products of one export carry
MaxPaths == 2

PathPool ==
  {<<"H", " ", ">", " ", "K">>,
   <<"S", " ", ">", " ", "K">>,
   <<"K">>,
   <<"S", " ", ">", " ", "H", " ", ">", " ", "K">>,
   <<"G", " ", "K", " ", ">", " ", "G", "&", "K">>}

\* one product per path; its handle is the slug of the path
CategoryExport(paths) ==
  LET ordered == SortStrings(paths)
  IN  [exists |-> TRUE, parses |-> TRUE,
       rows |-> [i \in 1..Len(ordered) |->
                   [BlankRow EXCEPT !.Handle = generateSlug(ordered[i]),
                                    !.Title = "Item",
                                    !.ProductCategory = ordered[i],
                                    !.VariantPrice = <<1, 0>>]]]

CategoryInit ==
  /\ db = EmptyDb
  /\ now = 0
  /\ last = NoRequest
  /\ inflight = <<>>
  /\ monitor = NoEvents

CategoryRun ==
  /\ now < MaxCategoryRuns
  /\ \E paths \in {ps \in SUBSET PathPool : Cardinality(ps) <= MaxPaths} :
       LET Ran(file, out) ==
             /\ db' = out.c.db
             /\ now' = now + 1
             /\ last' = [NoRequest EXCEPT
                           !.kind = "migrate", !.file = file,
                           !.calls = out.c.calls, !.thrown = out.c.thrown,
                           !.tally = out.tally, !.pre = db,
                           !.prior = [NoPrior EXCEPT
                                        !.command = last.kind,
                                        !.files.products = last.file,
                                        !.clean = ~last.thrown]]
           Run(file) == Ran(file, migrateFromCSV(db, now + 1, file, 0))
       IN  Run(CategoryExport(paths))
  /\ UNCHANGED <<inflight, monitor>>

CategorySpec == CategoryInit /\ [][CategoryRun]_vars

\* ---------------------------------------------------------- aggregation
\* ProductMigrator.testParser on the rows csv-parse returned: the rows are
\* any sequence of at most MaxRows export rows.
MaxRows == 3

\* a row without a handle
NoHandleRow ==
  [BlankRow EXCEPT !.Title = "Orphan", !.VariantPrice = <<5>>,
                   !.ImageSrc = "x.png", !.Color = "green"]

\* a row of the mat showing the picture the mug shows too
MatImageRow ==
  [BlankRow EXCEPT !.Handle = "mat", !.ImageSrc = "a.png",
                   !.ImagePosition = <<3>>, !.Color = "grey"]

\* a row of the mug with a second variant priced 0
MugFreeRow ==
  [BlankRow EXCEPT !.Handle = "mug", !.Option1Value = "Blue",
                   !.VariantSKU = "M2", !.VariantPrice = <<0>>,
                   !.ImageSrc = "c.png", !.ImagePosition = <<0>>]

RowPool ==
  {MugRow, MugImageRow, MugContinuationRow, MugFreeRow, MatRow, MatImageRow,
   NoHandleRow}

RowSequences == UNION {[1..n -> RowPool] : n \in 0..MaxRows}

AggregateInit ==
  /\ db = EmptyDb
  /\ now = 0
  /\ inflight = <<>>
  /\ monitor = NoEvents
  /\ \E rows \in RowSequences :
       last = [NoRequest EXCEPT
                 !.kind = "rows",
                 !.file = [exists |-> TRUE, parses |-> TRUE, rows |-> rows]]

Aggregate ==
  /\ last.kind = "rows"
  /\ last' = [last EXCEPT !.kind = "aggregated",
                          !.aggregated = groupProductData(last.file.rows)]
  /\ UNCHANGED <<db, now, inflight, monitor>>

AggregateSpec == AggregateInit /\ [][Aggregate]_vars

\* ------------------------------------------------- concurrent deliveries
\* Requests are handled on one event loop: a handler runs until its next
\* await of a store call, and the handlers of other requests run in
\* between.  A product handler in progress is its payload, the store call
\* it issues next (pc), the id its last lookup returned, and the positions
\* of its store calls in the order the store served all calls.
MaxInFlight == 2

ProductThread(topic, data, at) ==
  [topic |-> topic, data |-> data, at |-> at, found |-> NoId,
   thrown |-> FALSE, served |-> <<>>,
   pc |-> CASE topic = "products/create" -> "create.find"
            [] topic = "products/update" -> "update.find"
            [] OTHER                     -> "delete.find"]

Finished(th) == [th EXCEPT !.pc = "done"]
Failed(th) == [th EXCEPT !.pc = "done", !.thrown = TRUE]

\* mutant: the lookups match a product whatever its handle
ProductStep_AnyKey(d, th) ==
  LET product == FindFirst(d.products, LAMBDA p : TRUE)
      rec == ProductFromWebhook(th.data, Len(d.products) + 1, th.at)
  IN  CASE th.pc \in {"create.find", "update.find", "delete.find"} ->
             [db |-> d,
              th |-> IF product = NoId /\ th.pc = "delete.find"
                     THEN Finished(th)
                     ELSE [th EXCEPT
                             !.found = product,
                             !.pc = IF th.pc = "delete.find"
                                    THEN "delete.write"
                                    ELSE IF product = NoId THEN "create.write"
                                    ELSE "update.write"]]
        [] th.pc = "create.write" ->
             IF \E p \in {d.products[i] : i \in 1..Len(d.products)} :
                  p.handle = rec.handle
             THEN [db |-> d, th |-> Failed(th)]
             ELSE [db |-> [d EXCEPT !.products = Append(@, rec)],
                   th |-> Finished(th)]
        [] th.pc = "update.write" ->
             [db |-> [d EXCEPT !.products[th.found].title = th.data.title],
              th |-> Finished(th)]
        [] OTHER ->
             [db |-> [d EXCEPT !.products[th.found].status = "ARCHIVED"],
              th |-> Finished(th)]

\* mutant: the lookup of handleProductUpdate never finds the product
ProductStep_UpdateMisses(d, th) ==
  LET product == FindFirst(d.products, LAMBDA p : p.handle = th.data.handle)
      c == NewCtx(d, th.at, 0)
  IN  CASE th.pc = "create.find" ->           \* handleProductCreate: findFirst
             [db |-> d,
              th |-> [th EXCEPT !.pc = IF product # NoId THEN "update.find"
                                       ELSE "create.write"]]
        [] th.pc = "create.write" ->          \* prisma.product.create
             LET c1 == ProductCreate(c,
                         ProductFromWebhook(th.data, Len(d.products) + 1,
                                            th.at))
             IN  [db |-> c1.db,
                  th |-> IF c1.thrown THEN Failed(th) ELSE Finished(th)]
        [] th.pc = "update.find" ->           \* handleProductUpdate: findFirst
             [db |-> d,
              th |-> [th EXCEPT !.found = NoId, !.pc = "create.find"]]
        [] th.pc = "update.write" ->          \* prisma.product.update
             LET old == d.products[th.found]
                 new == ProductFromWebhook(th.data, th.found, th.at)
                 upd == [new EXCEPT !.handle = old.handle,
                                    !.compareAtPrice = old.compareAtPrice,
                                    !.costPerItem = old.costPerItem,
                                    !.categoryId = old.categoryId,
                                    !.createdAt = old.createdAt]
             IN  IF upd.status \notin ProductStatuses
                 THEN [db |-> d, th |-> Failed(th)]
                 ELSE [db |-> [d EXCEPT !.products[th.found] = upd],
                       th |-> Finished(th)]
        [] th.pc = "delete.find" ->           \* handleProductDelete: findFirst
             [db |-> d,
              th |-> IF product = NoId THEN Finished(th)
                     ELSE [th EXCEPT !.found = product,
                                     !.pc = "delete.write"]]
        [] OTHER ->                           \* prisma.product.update
             [db |-> [d EXCEPT !.products[th.found].status = "ARCHIVED",
                               !.products[th.found].updatedAt = th.at],
              th |-> Finished(th)]

\* The next store call of a product handler, applied to the store as it is
\* when the call is served.
ProductStep(d, th) ==
  LET product == FindFirst(d.products, LAMBDA p : p.handle = th.data.handle)
      c == NewCtx(d, th.at, 0)
  IN  CASE th.pc = "create.find" ->           \* handleProductCreate: findFirst
             [db |-> d,
              th |-> [th EXCEPT !.pc = IF product # NoId THEN "update.find"
                                       ELSE "create.write"]]
        [] th.pc = "create.write" ->          \* prisma.product.create
             LET c1 == ProductCreate(c,
                         ProductFromWebhook(th.data, Len(d.products) + 1,
                                            th.at))
             IN  [db |-> c1.db,
                  th |-> IF c1.thrown THEN Failed(th) ELSE Finished(th)]
        [] th.pc = "update.find" ->           \* handleProductUpdate: findFirst
             [db |-> d,
              th |-> [th EXCEPT !.found = product,
                                !.pc = IF product = NoId THEN "create.find"
                                       ELSE "update.write"]]
        [] th.pc = "update.write" ->          \* prisma.product.update
             LET old == d.products[th.found]
                 new == ProductFromWebhook(th.data, th.found, th.at)
                 upd == [new EXCEPT !.handle = old.handle,
                                    !.compareAtPrice = old.compareAtPrice,
                                    !.costPerItem = old.costPerItem,
                                    !.categoryId = old.categoryId,
                                    !.createdAt = old.createdAt]
             IN  IF upd.status \notin ProductStatuses
                 THEN [db |-> d, th |-> Failed(th)]
                 ELSE [db |-> [d EXCEPT !.products[th.found] = upd],
                       th |-> Finished(th)]
        [] th.pc = "delete.find" ->           \* handleProductDelete: findFirst
             [db |-> d,
              th |-> IF product = NoId THEN Finished(th)
                     ELSE [th EXCEPT !.found = product,
                                     !.pc = "delete.write"]]
        [] OTHER ->                           \* prisma.product.update
             [db |-> [d EXCEPT !.products[th.found].status = "ARCHIVED",
                               !.products[th.found].updatedAt = th.at],
              th |-> Finished(th)]

\* A verified product notification arrives and its handler begins.
Receive ==
  /\ Len(inflight) < MaxInFlight
  /\ \E topic \in ProductTopics, data \in ProductPayloads :
       inflight' = Append(inflight, ProductThread(topic, data, now + 1))
  /\ now' = now + 1
  /\ last' = IF inflight = <<>>
             THEN [NoRequest EXCEPT !.kind = "concurrent", !.pre = db]
             ELSE last
  /\ UNCHANGED <<db, monitor>>

RECURSIVE CallsServed(_)
CallsServed(threads) ==
  IF threads = <<>> THEN 0
  ELSE Len(threads[1].served) + CallsServed(Tail(threads))

\* The store serves the pending call of one handler.
StoreCall ==
  \E i \in 1..Len(inflight) :
    /\ inflight[i].pc # "done"
    /\ LET r == ProductStep(db, inflight[i])
       IN  /\ db' = r.db
           /\ inflight' =
                [inflight EXCEPT
                   ![i] = [r.th EXCEPT
                             !.served = Append(@, CallsServed(inflight) + 1)]]
    /\ UNCHANGED <<now, last, monitor>>

ConcurrentNext == Receive \/ StoreCall

ConcurrentSpec == Init /\ [][ConcurrentNext]_vars

\* ------------------------------------------- handlers racing for one product
MaxHandlers == 2

DelegatingTopics == {"products/create", "products/update"}

\* A verified create or update notification for the mug arrives and its
\* handler begins.
BeginHandler ==
  /\ Len(inflight) < MaxHandlers
  /\ \E topic \in DelegatingTopics, data \in {MugV1} :
       inflight' = Append(inflight, ProductThread(topic, data, now + 1))
  /\ now' = now + 1
  /\ last' = IF inflight = <<>>
             THEN [NoRequest EXCEPT !.kind = "handlers", !.pre = db]
             ELSE last
  /\ UNCHANGED <<db, monitor>>

HandlerNext == BeginHandler \/ StoreCall

\* the store answers every call it is sent
HandlerSpec == Init /\ [][HandlerNext]_vars /\ WF_vars(StoreCall)

\* ------------------------------------------------ recent events at the limit
MaxEvictionCalls == 3

EvictionTopic == "orders/create"

\* the monitor after n notifications of distinct ids were recorded as
\* successful, in the order 1..n
Filled(n) ==
  [NoEvents EXCEPT
     !.recentWebhooks =
        [i \in 1..n |->
           [key |-> <<EvictionTopic, i>>,
            value |-> [id |-> <<EvictionTopic, i>>, topic |-> EvictionTopic,
                       status |-> "success", attempts |-> 1, error |-> NULL,
                       processingTime |-> 0]]]]

EvictionInit ==
  /\ db = EmptyDb
  /\ now = 0
  /\ last = NoRequest
  /\ inflight = <<>>
  /\ monitor \in {Filled(n) : n \in (MAX_RECENT_WEBHOOKS - 2)..MAX_RECENT_WEBHOOKS}

\* recordWebhook(...) for a notification recorded before (the earliest one)
\* or for one never seen
RecordAtLimit ==
  /\ now < MaxEvictionCalls
  /\ \E status \in {"success", "failed"},
        suffix \in {1, 2 * MAX_RECENT_WEBHOOKS + now} :
       /\ monitor' =
            recordWebhookEvent(monitor, EvictionTopic, status, 0,
                               IF status = "failed" THEN StoreErrorMessage
                               ELSE NULL,
                               <<EvictionTopic, suffix>>)
       /\ last' = [NoRequest EXCEPT
                     !.kind = "record", !.topic = EvictionTopic,
                     !.status = status,
                     !.webhookId = <<EvictionTopic, suffix>>,
                     !.recorded = monitor]
  /\ now' = now + 1
  /\ UNCHANGED <<db, inflight>>

EvictionSpec == EvictionInit /\ [][RecordAtLimit]_vars

\* ------------------------------------------- migration run again after a fault
MaxReruns == 2

\* A later run of the product migration in which every store call succeeds.
LaterMigration ==
  /\ now >= MaxFaultyClock
  /\ Migrate({0}, MaxFaultyClock + MaxReruns)

RerunNext == FaultyMigration \/ LaterMigration

RerunSpec == Init /\ [][RerunNext]_vars

\* ------------------------------------------------- customers by either road
MaxCustomerCalls == 3

\* customer 501 after she changed her address of record
AnnMoved == [AnnV2 EXCEPT !.email = "ann@new.example"]

CustomerChanges == {AnnV1, AnnMoved}

AnnMovedCsvRow == [AnnCsvRow EXCEPT !.email = "ann@new.example"]

CsvCustomersMoved ==
  [exists |-> TRUE, parses |-> TRUE, rows |-> <<AnnMovedCsvRow, CarolCsvRow>>]

CustomerExports == {CsvCustomers, CsvCustomersMoved}

\* One customers/create or customers/update notification.
CustomerWebhook ==
  /\ now < MaxCustomerCalls
  /\ \E topic \in CustomerTopics, data \in CustomerChanges :
       LET out == POST(db, now + 1, Signed(topic, data), 0)
       IN  /\ db' = out.db
           /\ last' = [NoRequest EXCEPT
                         !.kind = "customer", !.topic = topic,
                         !.body = JsonBody(data), !.resp = out.resp,
                         !.calls = out.calls, !.thrown = out.thrown,
                         !.pre = db]
  /\ now' = now + 1
  /\ UNCHANGED <<inflight, monitor>>

\* One run of the customer migration over an export file.
CustomerMigration ==
  /\ now < MaxCustomerCalls
  /\ \E file \in CustomerExports :
       LET out == CustomerMigrator_migrateFromCSV(NewCtx(db, now + 1, 0), file)
       IN  /\ db' = out.c.db
           /\ last' = [NoRequest EXCEPT
                         !.kind = "customers", !.file = file,
                         !.calls = out.c.calls, !.thrown = out.c.thrown,
                         !.pre = db]
  /\ now' = now + 1
  /\ UNCHANGED <<inflight, monitor>>

CustomerNext == CustomerWebhook \/ CustomerMigration

CustomerSpec == Init /\ [][CustomerNext]_vars

\* ------------------------------------------------ concurrent order handlers
MaxOrdersInFlight == 2

ConcurrentOrderTopics == {"orders/create", "orders/paid"}

OrderThread(topic, data, at) ==
  [topic |-> topic, data |-> data, at |-> at, found |-> NoId, user |-> NoId,
   items |-> <<>>, wrote |-> FALSE, thrown |-> FALSE,
   pc |-> IF topic = "orders/create" THEN "create.find" ELSE "update.find"]

\* The next store call of an order handler, applied to the store as it is
\* when the call is served.  Order.shopifyOrderId carries no unique
\* constraint, so order.create accepts a second row with the same value.
OrderStep(d, th) ==
  LET order == FindFirst(d.orders,
                         LAMBDA o : o.shopifyOrderId = Digits(th.data.id))
  IN  CASE th.pc = "create.find" ->           \* handleOrderCreate: findFirst
             [db |-> d,
              th |-> IF order # NoId THEN Finished(th)
                     ELSE [th EXCEPT !.pc = "create.user"]]
        [] th.pc = "create.user" ->           \* prisma.user.findUnique
             [db |-> d,
              th |-> [th EXCEPT
                        !.user = FindFirst(d.users,
                                   LAMBDA u : u.email = th.data.email),
                        !.pc = "create.write"]]
        [] th.pc = "create.write" ->          \* prisma.order.create
             LET orderId == Len(d.orders) + 1
             IN  [db |-> [d EXCEPT !.orders =
                            Append(@, OrderFromWebhook(th.data, orderId,
                                                       th.user, th.at))],
                  th |-> [th EXCEPT
                            !.found = orderId,
                            !.wrote = TRUE,
                            !.items = th.data.line_items,
                            !.pc = IF th.data.line_items = <<>> THEN "done"
                                   ELSE "create.item"]]
        [] th.pc = "create.item" ->           \* prisma.orderItem.create
             [db |-> [d EXCEPT !.orderItems =
                        Append(@, OrderItemFromWebhook(th.items[1],
                                                       Len(@) + 1, th.found))],
              th |-> [th EXCEPT
                        !.items = Tail(@),
                        !.pc = IF Tail(th.items) = <<>> THEN "done"
                               ELSE "create.item"]]
        [] th.pc = "update.find" ->           \* handleOrderUpdate: findFirst
             [db |-> d,
              th |-> [th EXCEPT !.found = order,
                                !.pc = IF order = NoId THEN "create.find"
                                       ELSE "update.write"]]
        [] OTHER ->                           \* prisma.order.update
             LET old == d.orders[th.found]
                 upd == [old EXCEPT
                           !.status = statusMapping(th.data.financial_status),
                           !.totalAmount = ParseFloatOr0(th.data.total_price),
                           !.financialStatus = th.data.financial_status,
                           !.fulfillmentStatus = th.data.fulfillment_status,
                           !.subtotalPrice =
                              ParseFloatOr0(th.data.subtotal_price),
                           !.totalTax = ParseFloatOr0(th.data.total_tax),
                           !.shippingPrice =
                              ParseFloatOr0(th.data.shipping_amount),
                           !.totalDiscounts =
                              ParseFloatOr0(th.data.total_discounts),
                           !.updatedAt = th.at]
             IN  [db |-> [d EXCEPT !.orders[th.found] = upd],
                  th |-> [Finished(th) EXCEPT !.wrote = TRUE]]

\* A verified order notification arrives and its handler begins.
ReceiveOrder ==
  /\ Len(inflight) < MaxOrdersInFlight
  /\ \E topic \in ConcurrentOrderTopics, data \in OrderPayloads :
       inflight' = Append(inflight, OrderThread(topic, data, now + 1))
  /\ now' = now + 1
  /\ last' = IF inflight = <<>>
             THEN [NoRequest EXCEPT !.kind = "orders", !.pre = db]
             ELSE last
  /\ UNCHANGED <<db, monitor>>

\* The store serves the pending call of one order handler.
OrderStoreCall ==
  \E i \in 1..Len(inflight) :
    /\ inflight[i].pc # "done"
    /\ LET r == OrderStep(db, inflight[i])
       IN  /\ db' = r.db
           /\ inflight' = [inflight EXCEPT ![i] = r.th]
    /\ UNCHANGED <<now, last, monitor>>

ConcurrentOrderNext == ReceiveOrder \/ OrderStoreCall

ConcurrentOrderSpec == Init /\ [][ConcurrentOrderNext]_vars

\* ========================================================= properties
Range(seq) == {seq[i] : i \in 1..Len(seq)}

StripFields(coll, names) ==
  [i \in 1..Len(coll) |->
     [f \in (DOMAIN coll[i]) \ names |-> coll[i][f]]]

\* the store with the fields named removed from products, orders and users
Without(d, names) ==
  [d EXCEPT !.products = StripFields(@, names),
            !.orders = StripFields(@, names),
            !.users = StripFields(@, names)]

NoUpdatedAt(d) == Without(d, {"updatedAt"})
NoTimestamps(d) == Without(d, {"updatedAt", "createdAt"})

LastReq == [topic |-> last.topic, hdr |-> last.hdr, body |-> last.body]

\* the latest request carried the digest of its own body
SignatureMatches ==
  last.kind = "webhook" /\ last.hdr = CalculatedHmac(last.body, WEBHOOK_SECRET)

\* the latest request was verified, parsed and addressed to a handler
Verified ==
  SignatureMatches /\ last.body.json /\ last.topic \in HandledTopics

Handles(d) == {p.handle : p \in Range(d.products)}
OrderKeys(d) == {o.shopifyOrderId : o \in Range(d.orders)}
Emails(d) == {u.email : u \in Range(d.users)}

\* the external key of the latest payload is already in store d
KeyKnown(d) ==
  CASE last.topic \in ProductTopics  -> last.body.data.handle \in Handles(d)
    [] last.topic \in OrderTopics    -> Digits(last.body.data.id) \in OrderKeys(d)
    [] last.topic \in CustomerTopics -> last.body.data.email \in Emails(d)
    [] OTHER -> FALSE

ItemsOf(d, shopifyOrderId) ==
  SelectSeq(d.orderItems,
            LAMBDA it : \E o \in Range(d.orders) :
                          o.id = it.orderId /\ o.shopifyOrderId = shopifyOrderId)

\* ---------------------------------------------------------------------
\* C1: a request whose signature header is absent or is not the digest of
\* its raw body reaches no product, order or customer handler and leaves
\* every persisted record as it was.
C1_SignatureRejection ==
  (last.kind = "webhook" /\ ~SignatureMatches)
    => (last.calls = <<>> /\ db = last.pre)

\* a body altered after signing is delivered to a store that has a product
C1_Witness ==
  /\ last.kind = "webhook"
  /\ last.hdr = CalculatedHmac(SignedOriginal(last.body), WEBHOOK_SECRET)
  /\ last.topic = "products/delete"
  /\ last.body.data.handle \in Handles(last.pre)
  /\ last.resp = Unauthorized

\* ---------------------------------------------------------------------
\* C2: every request whose signature does not match (absent header, wrong
\* value of the right length, header of another length) is answered 401
\* and its body is never parsed.
C2_MismatchIsUnauthorized ==
  (last.kind = "webhook" /\ ~SignatureMatches)
    => (last.resp = Unauthorized /\ ~last.parsed)

\* ---------------------------------------------------------------------
\* C3: a verified update notification for a key with no local record, all
\* of whose store calls succeed, creates the entity from the payload and is
\* answered with success.
C3_UpdateCreatesUnknown ==
  LET data == last.body.data
      updates == {"products/update", "customers/update"} \cup OrderUpdateTopics
  IN  (Verified /\ last.failAt = 0 /\ last.topic \in updates
         /\ ~KeyKnown(last.pre))
        => /\ last.resp = Success
           /\ last.topic = "products/update" =>
                /\ Len(db.products) = Len(last.pre.products) + 1
                /\ \E p \in Range(db.products) :
                     p.handle = data.handle /\ p.title = data.title
           /\ last.topic \in OrderUpdateTopics =>
                /\ Len(db.orders) = Len(last.pre.orders) + 1
                /\ \E o \in Range(db.orders) :
                     /\ o.shopifyOrderId = Digits(data.id)
                     /\ o.financialStatus = data.financial_status
                     /\ o.customerEmail = data.email
                /\ Len(ItemsOf(db, Digits(data.id))) = Len(data.line_items)
           /\ last.topic = "customers/update" =>
                /\ Len(db.users) = Len(last.pre.users) + 1
                /\ \E u \in Range(db.users) :
                     /\ u.email = data.email
                     /\ u.shopifyCustomerId = Digits(data.id)

\* orders/paid overtook orders/create
C3_Witness ==
  /\ Verified
  /\ last.topic = "orders/paid"
  /\ ~KeyKnown(last.pre)
  /\ last.resp = Success
  /\ last.calls = <<"handleOrderUpdate", "handleOrderCreate">>

\* ---------------------------------------------------------------------
\* C4: delivering the payload that was just applied a second time leaves
\* products, orders, order items and users as they are, updatedAt aside.
C4_DuplicateDelivery ==
  (Verified /\ last.resp = Success)
    => LET again == POST(db, now + 1, LastReq, 0)
       IN  /\ again.resp = Success
           /\ NoUpdatedAt(again.db) = NoUpdatedAt(db)

\* the first delivery wrote something
C4_Witness ==
  /\ Verified
  /\ last.resp = Success
  /\ last.topic \in {"orders/create", "customers/update", "products/update"}
  /\ NoUpdatedAt(db) # NoUpdatedAt(last.pre)

\* ---------------------------------------------------------------------
\* C5: a create and an update notification with the same external key leave
\* the same persisted state (timestamps aside) in either order.
Creates == {"products/create", "orders/create", "customers/create"}

UpdateTopicOf(create) ==
  CASE create = "products/create" -> "products/update"
    [] create = "orders/create"   -> "orders/updated"
    [] OTHER                      -> "customers/update"

PayloadsOf(create) ==
  CASE create = "products/create" -> ProductPayloads
    [] create = "orders/create"   -> OrderPayloads
    [] OTHER                      -> CustomerPayloads

KeyOf(topic, data) ==
  CASE topic \in ProductTopics -> <<data.handle>>
    [] topic \in OrderTopics   -> <<data.id>>
    [] OTHER                   -> <<data.email>>

C5_OrderIndependent ==
  (Verified /\ last.resp = Success /\ last.topic \in Creates)
    => \A u \in PayloadsOf(last.topic) :
         KeyOf(last.topic, u) = KeyOf(last.topic, last.body.data) =>
           LET upd == Signed(UpdateTopicOf(last.topic), u)
               createThenUpdate == POST(db, now + 1, upd, 0).db
               updateFirst == POST(last.pre, now, upd, 0).db
               updateThenCreate == POST(updateFirst, now + 1, LastReq, 0).db
           IN  NoTimestamps(createThenUpdate) = NoTimestamps(updateThenCreate)

\* ---------------------------------------------------------------------
\* C6: a verified request is answered with success only when its handler
\* ran to completion; when the handler throws, at whichever store call, the
\* answer is the 500 error response.
C6_AckAfterApply ==
  Verified =>
    /\ last.thrown => last.resp = InternalServerError
    /\ last.failAt # 0 => last.thrown
    /\ last.resp = Success =>
         /\ ~last.thrown
         /\ db = POST(last.pre, now, LastReq, 0).db

\* an order was written, then the insert of one of its items failed
C6_Witness ==
  /\ Verified
  /\ last.thrown
  /\ last.resp = InternalServerError
  /\ Len(db.orders) = Len(last.pre.orders) + 1

\* ---------------------------------------------------------------------
\* C7: when applying a notification failed part-way and the same payload is
\* then redelivered and succeeds, the persisted state equals the state one
\* successful apply would have left (an order with all its line items).
C7_RedeliverySafe ==
  (Verified /\ last.thrown)
    => LET redelivery == POST(db, now + 1, LastReq, 0)
           single == POST(last.pre, now + 1, LastReq, 0)
       IN  redelivery.resp = Success
             => NoTimestamps(redelivery.db) = NoTimestamps(single.db)

\* ---------------------------------------------------------------------
\* C8: every create or update notification whose key already exists
\* rewrites the existing record with the payload's content; none is skipped
\* because the record exists.
C8_UpdatesInPlace ==
  LET data == last.body.data
  IN  (Verified /\ last.resp = Success /\ last.topic # "products/delete"
         /\ KeyKnown(last.pre))
        => /\ last.topic \in ProductTopics =>
                \E p \in Range(db.products) :
                  p.handle = data.handle /\ p.title = data.title
           /\ last.topic \in OrderTopics =>
                \E o \in Range(db.orders) :
                  /\ o.shopifyOrderId = Digits(data.id)
                  /\ o.financialStatus = data.financial_status
           /\ last.topic \in CustomerTopics =>
                \E u \in Range(db.users) :
                  u.email = data.email /\ u.lastName = OrEmpty(data.last_name)

\* ---------------------------------------------------------------------
\* C9: after a product create or update was applied, by a webhook or by the
\* migration, the product's persisted variants, images and metafields are
\* exactly those of the applied payload.
ChildrenOf(d, coll, handle) ==
  SelectSeq(d[coll],
            LAMBDA ch : \E p \in Range(d.products) :
                          p.id = ch.productId /\ p.handle = handle)

C9_ChildrenReplaced ==
  /\ (Verified /\ last.resp = Success
        /\ last.topic \in {"products/create", "products/update"})
       => LET data == last.body.data
              variants == ChildrenOf(db, "variants", data.handle)
              images == ChildrenOf(db, "images", data.handle)
          IN  /\ [i \in 1..Len(variants) |-> variants[i].price]
                   = [i \in 1..Len(data.variants) |-> data.variants[i].price]
              /\ [i \in 1..Len(images) |-> images[i].src]
                   = [i \in 1..Len(data.images) |-> data.images[i].src]
  /\ (last.kind = "migrate" /\ ~last.thrown /\ last.failAt = 0)
       => LET parsed == groupProductData(last.file.rows)
          IN  \A i \in 1..Len(parsed) :
                LET variants == ChildrenOf(db, "variants", parsed[i].handle)
                    images == ChildrenOf(db, "images", parsed[i].handle)
                    metafields == ChildrenOf(db, "metafields", parsed[i].handle)
                IN  /\ [j \in 1..Len(variants) |-> variants[j].price]
                         = [j \in 1..Len(parsed[i].variants) |->
                              parsed[i].variants[j].price]
                    /\ [j \in 1..Len(images) |-> images[j].src]
                         = [j \in 1..Len(parsed[i].images) |->
                              parsed[i].images[j].src]
                    /\ [j \in 1..Len(metafields) |-> metafields[j].value]
                         = [j \in 1..Len(parsed[i].metafields) |->
                              parsed[i].metafields[j].value]

\* ---------------------------------------------------------------------
\* C10: products/delete for an existing key sets that product's status to
\* ARCHIVED and removes nothing; no webhook or migration ever removes a
\* product key; a delete for an unknown key changes nothing.
Archived(old) == [old EXCEPT !.status = "ARCHIVED", !.updatedAt = now]

C10_ArchiveNeverDelete ==
  /\ Handles(last.pre) \subseteq Handles(db)
  /\ Len(db.products) >= Len(last.pre.products)
  /\ (Verified /\ last.topic = "products/delete" /\ ~last.thrown) =>
       /\ Len(db.products) = Len(last.pre.products)
       /\ \A i \in 1..Len(db.products) :
            db.products[i] =
              IF last.pre.products[i].handle = last.body.data.handle
              THEN Archived(last.pre.products[i])
              ELSE last.pre.products[i]
       /\ [db EXCEPT !.products = <<>>] = [last.pre EXCEPT !.products = <<>>]
       /\ ~KeyKnown(last.pre) => db = last.pre

\* an active product was archived
C10_Witness ==
  /\ Verified
  /\ last.topic = "products/delete"
  /\ last.resp = Success
  /\ \E i \in 1..Len(db.products) :
       /\ db.products[i].handle = last.body.data.handle
       /\ db.products[i].status = "ARCHIVED"
       /\ last.pre.products[i].status = "ACTIVE"

\* ---------------------------------------------------------------------
\* C11: no product notification and no product migration run changes a
\* persisted order or order item, whether or not a store call fails: the
\* product name and price recorded on an order item stay as written.
C11_ProductOpsLeaveOrders ==
  (\/ Verified /\ last.topic \in ProductTopics
   \/ last.kind = "migrate")
    => /\ db.orders = last.pre.orders
       /\ db.orderItems = last.pre.orderItems

\* the product an order item names was renamed
C11_Witness ==
  /\ Verified
  /\ last.topic = "products/update"
  /\ last.resp = Success
  /\ \E i \in 1..Len(last.pre.products) :
       /\ db.products[i].handle = last.body.data.handle
       /\ db.products[i].title # last.pre.products[i].title
       /\ \E it \in Range(db.orderItems) :
            /\ it.shopifyProductId = Digits(last.body.data.id)
            /\ it.productName = last.pre.products[i].title

\* ---------------------------------------------------------------------
\* C12: a verified notification whose topic has no case is answered with
\* success; no handler is entered, no store call is issued and the store
\* is unchanged.
C12_UnknownTopicAcknowledged ==
  (last.kind = "webhook" /\ SignatureMatches /\ last.body.json
     /\ last.topic \notin HandledTopics)
    => /\ last.resp = Success
       /\ last.calls = <<>>
       /\ db = last.pre

\* delivered to a store that holds records
C12_Witness ==
  /\ last.kind = "webhook"
  /\ SignatureMatches
  /\ last.topic \in UnhandledTopics
  /\ last.resp = Success
  /\ last.pre.products # <<>>

\* ---------------------------------------------------------------------
\* C13: when verified product notifications with pairwise different handles
\* are handled concurrently, then once all handlers have returned the
\* persisted products (ids and timestamps aside) and everything else in the
\* store are what applying the notifications one after another, in any
\* order, leaves.
RECURSIVE ApplyInOrder(_, _, _)
ApplyInOrder(d, threads, order) ==
  IF order = <<>> THEN d
  ELSE LET th == threads[order[1]]
       IN  ApplyInOrder(
             Dispatch(NewCtx(d, th.at, 0), th.topic, th.data).db,
             threads, Tail(order))

Orders(n) ==
  {o \in [1..n -> 1..n] : \A i, j \in 1..n : i # j => o[i] # o[j]}

\* the store with the products as a set, ids and timestamps removed
Catalog(d) ==
  [d EXCEPT !.products =
     {[f \in (DOMAIN p) \ {"id", "createdAt", "updatedAt"} |-> p[f]] :
        p \in Range(d.products)}]

AllReturned ==
  /\ inflight # <<>>
  /\ \A i \in 1..Len(inflight) : inflight[i].pc = "done"

DifferentKeys ==
  \A i, j \in 1..Len(inflight) :
    i # j => inflight[i].data.handle # inflight[j].data.handle

C13_DifferentKeysIndependent ==
  (AllReturned /\ DifferentKeys)
    => \A o \in Orders(Len(inflight)) :
         Catalog(db) = Catalog(ApplyInOrder(last.pre, inflight, o))

\* a create and an update for another product interleaved: the update's
\* lookup was served before the create's write, its write after
C13_Witness ==
  /\ AllReturned
  /\ DifferentKeys
  /\ Len(inflight) = 2
  /\ inflight[1].topic = "products/create"
  /\ inflight[2].topic = "products/update"
  /\ Len(db.products) = Len(last.pre.products) + 1
  /\ inflight[2].served[1] < inflight[1].served[Len(inflight[1].served)]
  /\ inflight[1].served[1] < inflight[2].served[Len(inflight[2].served)]
  /\ \E i \in 1..Len(last.pre.products) :
       /\ db.products[i].handle = inflight[2].data.handle
       /\ db.products[i].updatedAt = inflight[2].at
       /\ db.products[i].title # last.pre.products[i].title

\* A run of the CLI repeats the run before it: the same command on the same
\* export files.
Rerun ==
  /\ last.kind = "cli"
  /\ last.prior.command = last.command
  /\ last.prior.files = last.files

\* C14: running the product, customer or order migration again on the same
\* export, after a run in which every entity succeeded, creates no record
\* and changes no existing record.
C14_RerunChangesNothing ==
  (Rerun /\ last.prior.clean /\ last.ran # {}) => db = last.pre

\* The same for the migrations whose entities all carry their key: products
\* and customers, and orders of files in which every row has an id.
C14_KeyedRerunChangesNothing ==
  (/\ Rerun /\ last.prior.clean /\ last.ran # {}
   /\ \/ "orders" \notin last.ran
      \/ \A i \in 1..Len(last.files.orders.rows) :
           last.files.orders.rows[i].id # <<>>)
  => /\ db = last.pre
     /\ last.customers.successCount = 0
     /\ last.orders.successCount = 0

C14_KeyedWitness ==
  /\ Rerun /\ last.prior.clean
  /\ last.ran = {"products", "customers", "orders"}
  /\ last.customers.skippedCount = 3
  /\ last.orders.skippedCount = 2
  /\ Len(db.orders) >= 2
\* The export file the command of the latest run reads.
FileOf(l) ==
  CASE l.command = "customers" -> l.files.customers
    [] l.command = "orders" -> l.files.orders
    [] OTHER -> l.files.products

\* The number of entities in the batch of a single migration, and the
\* counts its migrator printed.
Batch(l) ==
  CASE l.command = "customers" -> Len(l.files.customers.rows)
    [] l.command = "orders" -> Len(groupOrdersByOrderId(l.files.orders.rows))
    [] OTHER -> Len(groupProductData(l.files.products.rows))

CountedEntities(l) ==
  CASE l.command = "customers" ->
         l.customers.successCount + l.customers.skippedCount
           + l.customers.errorCount
    [] l.command = "orders" ->
         l.orders.successCount + l.orders.skippedCount + l.orders.errorCount
    [] OTHER -> l.tally.successCount + l.tally.errorCount

Errors(l) ==
  CASE l.command = "customers" -> l.customers.errorCount
    [] l.command = "orders" -> l.orders.errorCount
    [] OTHER -> l.tally.errorCount

\* The store calls a migration makes before its first entity: the preload of
\* the existing keys, or the creation of the categories.
CallsBeforeBatch(l) ==
  IF l.command \in {"customers", "orders"} THEN 1
  ELSE migrateCategories(NewCtx(l.pre, now, 0),
                         groupProductData(l.files.products.rows)).ops

\* The external keys of the records of a store.
Keys(d) ==
  [products |-> {d.products[i].handle : i \in 1..Len(d.products)},
   users |-> {d.users[i].email : i \in 1..Len(d.users)},
   orders |-> {d.orders[i].shopifyOrderName : i \in 1..Len(d.orders)}]

\* The store call that failed was part of the upsert of one entity.
EntityFailed ==
  /\ last.kind = "cli"
  /\ last.command \in {"products", "customers", "orders"}
  /\ Readable(FileOf(last))
  /\ last.failAt > CallsBeforeBatch(last)

\* C15: if the upsert of one product, order or customer throws, the failure
\* is counted, every later entity of the batch is still attempted and the
\* run ends normally.
C15_EntityFailureCounted ==
  EntityFailed =>
    LET clean == Keys(main(last.command, last.pre, now, last.files, 0).c.db)
        kept == Keys(db)
    IN  /\ last.exit = 0
        /\ last.fatal = {}
        /\ Errors(last) >= 1
        /\ CountedEntities(last) = Batch(last)
        /\ Cardinality((clean.products \ kept.products)
                         \cup (clean.users \ kept.users)
                         \cup (clean.orders \ kept.orders)) <= 1

\* The creation of order #1001 failed and order #1002 was created after it.
C15_Witness ==
  /\ EntityFailed
  /\ last.command = "orders"
  /\ last.orders = [successCount |-> 1, errorCount |-> 1, skippedCount |-> 0]
  /\ "#1001" \notin Keys(db).orders
  /\ "#1002" \in Keys(db).orders
Successes(l) ==
  CASE l.command = "customers" -> l.customers.successCount
    [] l.command = "orders" -> l.orders.successCount
    [] OTHER -> l.tally.successCount

\* The number of entities the latest run wrote.
Written ==
  CASE last.command = "customers" -> Len(db.users) - Len(last.pre.users)
    [] last.command = "orders" -> Len(db.orders) - Len(last.pre.orders)
    [] OTHER -> Len(db.products) - Len(last.pre.products)

\* A single migration ran to its end.
MigrationEnded ==
  /\ last.kind = "cli"
  /\ last.command \in {"products", "customers", "orders"}
  /\ Readable(FileOf(last))
  /\ last.fatal = {}

\* C16: at the end of a migration run the counts sum to the number of
\* entities of the batch, and an entity that was not written because its key
\* already existed is not counted as successful: the success count is the
\* number of entities written.
C16_TallyPartitionsBatch ==
  MigrationEnded =>
    /\ CountedEntities(last) = Batch(last)
    /\ Successes(last) = Written

\* The same for the customer and order migrators, which keep a skipped count.
C16_SkipTallyPartitionsBatch ==
  (MigrationEnded /\ last.command # "products") =>
    /\ CountedEntities(last) = Batch(last)
    /\ Successes(last) = Written
\* The input of the latest run has a fatal defect: a file the command reads
\* is not found or cannot be parsed.  The all command reads the customers
\* and orders exports only when they exist.
FatalInput ==
  CASE last.command \in {"products", "test"} -> ~Readable(last.files.products)
    [] last.command = "customers" -> ~Readable(last.files.customers)
    [] last.command = "orders" -> ~Readable(last.files.orders)
    [] OTHER ->
         \/ ~Readable(last.files.products)
         \/ last.files.customers.exists /\ ~last.files.customers.parses
         \/ last.files.orders.exists /\ ~last.files.orders.parses

\* A fatal error occurred in the latest run: its input has a fatal defect,
\* or a migrator ended in its outer catch.
FatalError == FatalInput \/ last.fatal # {}

\* C17: for each CLI subcommand the process exits with code 1 whenever a
\* fatal error occurs (input file not found or not parseable) and with code
\* 0 otherwise, whatever the per-record failures.
C17_ExitCodeReflectsFatal ==
  last.kind = "cli" => (last.exit = 1 <=> FatalError)

\* The same for the commands that do not go through runCustomerMigration or
\* runOrderMigration with a file that exists.
C17_ExitCodeOfUncaughtFatal ==
  (/\ last.kind = "cli"
   /\ \/ last.command \in {"products", "test"}
      \/ last.command = "customers" /\ ~last.files.customers.exists
      \/ last.command = "orders" /\ ~last.files.orders.exists)
  => (last.exit = 1 <=> FatalError)
\* The file is there and csv-parse rejects it.
Malformed(file) == file.exists /\ ~file.parses

Unordered(products) ==
  {[p EXCEPT !.variants = Range(@), !.images = Range(@),
             !.metafields = Range(@)] : p \in Range(products)}

ImagesSorted(products) ==
  \A p \in Range(products) :
    \A i, j \in 1..Len(p.images) :
      i < j => p.images[i].position <= p.images[j].position

\* C19: the aggregator yields the same products (product-level fields,
\* variants, metafields, set of images) on every permutation of the rows,
\* and the images of each product are sorted by position.
C19_AnyRowOrderSameProducts ==
  last.kind = "aggregated" =>
    LET rows == last.file.rows
    IN  /\ ImagesSorted(last.aggregated)
        /\ \A perm \in Permutations(1..Len(rows)) :
             Unordered(groupProductData([i \in 1..Len(rows) |->
                                           rows[perm[i]]]))
               = Unordered(last.aggregated)

\* The part that does not depend on which row of a handle comes first: the
\* handles, the keys of the variants, images and metafields of each
\* product, and the sorting of the images.
AggregatedKeys(products) ==
  {[handle |-> p.handle,
    variants |-> {<<v.sku, v.option1Value>> : v \in Range(p.variants)},
    images |-> {img.src : img \in Range(p.images)},
    metafields |-> {m.key : m \in Range(p.metafields)}]
     : p \in Range(products)}

C19_AnyRowOrderSameKeys ==
  last.kind = "aggregated" =>
    LET rows == last.file.rows
    IN  /\ ImagesSorted(last.aggregated)
        /\ \A perm \in Permutations(1..Len(rows)) :
             AggregatedKeys(groupProductData([i \in 1..Len(rows) |->
                                                rows[perm[i]]]))
               = AggregatedKeys(last.aggregated)

\* A row carries a variant when its price parses to a positive number.
HasVariant(row) ==
  row.VariantPrice # NumNull /\ ParseFloat(row.VariantPrice) > 0

RowsOf(rows, handle) == {r \in Range(rows) : r.Handle = handle}

\* C20: the aggregation has exactly one product per distinct non-empty
\* handle of the rows; the variant, image and metafields of every row are in
\* the product of the row's handle (a duplicate of an earlier variant, image
\* or metafield key is represented by the earlier one), and everything in a
\* product comes from a row of its handle.
C20_OneProductPerHandle ==
  last.kind = "aggregated" =>
    LET rows == last.file.rows
        out == last.aggregated
    IN  /\ {out[i].handle : i \in 1..Len(out)}
             = {r.Handle : r \in Range(rows)} \ {""}
        /\ \A i, j \in 1..Len(out) : out[i].handle = out[j].handle => i = j
        /\ \A r \in Range(rows) : \A p \in Range(out) :
             r.Handle = p.handle =>
               /\ HasVariant(r) =>
                     \E v \in Range(p.variants) :
                       /\ v.sku = ParsedVariant(r).sku
                       /\ v.option1Value = ParsedVariant(r).option1Value
               /\ r.ImageSrc # "" =>
                     \E img \in Range(p.images) : img.src = r.ImageSrc
               /\ r.Color # "" =>
                     \E m \in Range(p.metafields) : m.key = "color-pattern"
               /\ r.ExerciseFeatures # "" =>
                     \E m \in Range(p.metafields) :
                       m.key = "exercise-machine-features"
        /\ \A p \in Range(out) :
             /\ \A v \in Range(p.variants) :
                  \E r \in RowsOf(rows, p.handle) :
                    HasVariant(r) /\ v = ParsedVariant(r)
             /\ \A img \in Range(p.images) :
                  \E r \in RowsOf(rows, p.handle) : img = ParsedImage(r)
             /\ \A m \in Range(p.metafields) :
                  \E r \in RowsOf(rows, p.handle) :
                    m.value \in {r.Color, r.ExerciseFeatures}

\* Rows of two handles and a row without handle, the second product's row
\* between the rows of the first: two products, each with its own image.
C20_Witness ==
  /\ last.kind = "aggregated"
  /\ last.file.rows = <<MugRow, MatImageRow, NoHandleRow>>
  /\ Len(last.aggregated) = 2
  /\ last.aggregated[1].images = <<ParsedImage(MugRow)>>
  /\ last.aggregated[2].images = <<ParsedImage(MatImageRow)>>
\* The rows of a handle, in the order of the file.
RowsInOrder(rows, handle) == SelectSeq(rows, LAMBDA r : r.Handle = handle)

\* C21: in every aggregated product no two variants share both SKU and
\* primary option value, and of several rows with the same SKU and option
\* value the first one is the variant kept.
C21_VariantsUniqueFirstKept ==
  last.kind = "aggregated" =>
    \A p \in Range(last.aggregated) :
      LET mine == RowsInOrder(last.file.rows, p.handle)
      IN  /\ \A i, j \in 1..Len(p.variants) :
               (/\ p.variants[i].sku = p.variants[j].sku
                /\ p.variants[i].option1Value = p.variants[j].option1Value)
               => i = j
          /\ \A v \in Range(p.variants) :
               \E k \in 1..Len(mine) :
                 /\ HasVariant(mine[k])
                 /\ v = ParsedVariant(mine[k])
                 /\ \A e \in 1..(k - 1) :
                      HasVariant(mine[e]) =>
                        \/ ParsedVariant(mine[e]).sku # v.sku
                        \/ ParsedVariant(mine[e]).option1Value
                             # v.option1Value

\* Two rows with the variant M1/Red, the second without the weight of the
\* first: one variant, the first row's.
C21_Witness ==
  /\ last.kind = "aggregated"
  /\ last.file.rows = <<MugRow, MugImageRow>>
  /\ ParsedVariant(MugRow) # ParsedVariant(MugImageRow)
  /\ last.aggregated[1].variants = <<ParsedVariant(MugRow)>>

\* C22: a row contributes a variant to its product if and only if it
\* carries a variant price that parses to a number greater than zero; a row
\* without one contributes only image and metafield data.
C22_VariantIffPositivePrice ==
  last.kind = "aggregated" =>
    \A p \in Range(last.aggregated) :
      LET mine == RowsOf(last.file.rows, p.handle)
          Key(v) == <<v.sku, v.option1Value>>
      IN  /\ {Key(v) : v \in Range(p.variants)}
               = {Key(ParsedVariant(r)) : r \in {m \in mine : HasVariant(m)}}
          /\ Len(p.variants) <= Cardinality({m \in mine : HasVariant(m)})
          /\ \A r \in mine :
               r.ImageSrc # "" => r.ImageSrc \in {i.src : i \in Range(p.images)}

\* A continuation row and a row priced 0 after the main row: their images are
\* taken, their variants are not.
C22_Witness ==
  /\ last.kind = "aggregated"
  /\ last.file.rows = <<MugRow, MugContinuationRow, MugFreeRow>>
  /\ Len(last.aggregated[1].variants) = 1
  /\ Len(last.aggregated[1].images) = 2
  /\ Len(last.aggregated[1].metafields) = 2

\* The place of the first row of a handle that names an image source.
FirstSeen(rows, handle, src) ==
  LET mine == RowsInOrder(rows, handle)
  IN  CHOOSE k \in 1..Len(mine) :
        /\ mine[k].ImageSrc = src
        /\ \A e \in 1..(k - 1) : mine[e].ImageSrc # src

\* C23: each product's images are in ascending order of position, images
\* of equal position in the order in which they were first seen; a row
\* without a usable position counts as position 1.
C23_ImagesSortedStable ==
  last.kind = "aggregated" =>
    \A p \in Range(last.aggregated) :
      \A i, j \in 1..Len(p.images) :
        i < j =>
          /\ p.images[i].position <= p.images[j].position
          /\ p.images[i].position = p.images[j].position =>
                FirstSeen(last.file.rows, p.handle, p.images[i].src)
                  < FirstSeen(last.file.rows, p.handle, p.images[j].src)
          /\ p.images[i].position >= 1

\* Three images: position 2, then 0 and 1, which both count as 1 and keep
\* their order, before the first.
C23_Witness ==
  /\ last.kind = "aggregated"
  /\ last.file.rows = <<MugRow, MugFreeRow, MugImageRow>>
  /\ [i \in 1..Len(last.aggregated[1].images) |->
        <<last.aggregated[1].images[i].src,
          last.aggregated[1].images[i].position>>]
       = << <<"c.png", 1>>, <<"b.png", 1>>, <<"a.png", 2>> >>

\* C24: in every aggregated product no two images have the same source URL,
\* and of several rows naming the same URL the first one is the image kept.
C24_ImagesUniqueFirstKept ==
  last.kind = "aggregated" =>
    \A p \in Range(last.aggregated) :
      LET mine == RowsInOrder(last.file.rows, p.handle)
      IN  /\ \A i, j \in 1..Len(p.images) :
               p.images[i].src = p.images[j].src => i = j
          /\ \A img \in Range(p.images) :
               img = ParsedImage(mine[FirstSeen(last.file.rows, p.handle,
                                                img.src)])

\* a.png named by the main row at position 2 and again by a continuation row
\* without position: one image, at position 2.
C24_Witness ==
  /\ last.kind = "aggregated"
  /\ last.file.rows = <<MugRow, MugContinuationRow>>
  /\ ParsedImage(MugRow) # ParsedImage(MugContinuationRow)
  /\ last.aggregated[1].images = <<ParsedImage(MugRow)>>
\* The candidate paths of the latest migration run, and the paths among the
\* categories of a store.
CandidatePaths == CategoryPrefixes(groupProductData(last.file.rows))

NodesOf(d, path) ==
  {k \in Range(d.categories) : k.shopifyCategory = path}

ParentPath(path) ==
  JoinPath(SubSeq(SplitPath(path), 1, Len(SplitPath(path)) - 1))

\* The category step of the latest run ran to its end.
CategoryStepDone == last.kind = "migrate" /\ ~last.thrown

ProcessingOrder == SortStrings(CandidatePaths)

\* C26: every Category node with a parent was created after its parent
\* (ids are given in creation order), no node of a path with several
\* segments is without parent, and the processing order has every prefix
\* before the longer paths that extend it.
C26_ParentBeforeChild ==
  last.kind = "migrate" =>
    /\ \A k \in Range(db.categories) :
         /\ k.level > 0 => k.parentId # NoId
         /\ k.parentId # NoId =>
               /\ k.parentId < k.id
               /\ db.categories[k.parentId].shopifyCategory
                    = ParentPath(k.shopifyCategory)
    /\ \A i, j \in 1..Len(ProcessingOrder) :
         ProcessingOrder[i] = ParentPath(ProcessingOrder[j]) => i < j

\* Two branches under S in one run: S > H and S > K were both created after S,
\* and S > H > K after S > H.
C26_Witness ==
  /\ CategoryStepDone
  /\ Len(ProcessingOrder) = 4
  /\ last.pre.categories = <<>>
  /\ [i \in 1..Len(db.categories) |-> db.categories[i].parentId]
       = <<NoId, 1, 2, 1>>

\* C27: for every set of category paths the category builder gives every
\* Category a name and a slug of its own; no create meets a name or slug
\* that exists, so the category step never fails on the unique constraints.
C27_NamesAndSlugsNeverCollide ==
  last.kind = "migrate" =>
    /\ ~last.thrown
    /\ \A path \in CandidatePaths : NodesOf(db, path) # {}

\* The names and slugs the store holds are unique all the same: the create
\* that would repeat one is rejected.
C27_StoredNamesUnique ==
  \A i, j \in 1..Len(db.categories) :
    (\/ db.categories[i].name = db.categories[j].name
     \/ db.categories[i].slug = db.categories[j].slug) => i = j

\* The latest run repeats the run before it on the same export.
SameExportAgain ==
  /\ last.kind = "migrate"
  /\ last.prior.command = "migrate"
  /\ last.prior.files.products = last.file

\* C28: after any runs of the category builder over any path sets there is
\* at most one Category node per path, and a run on the paths of the run
\* before it, which ran to its end, ends too, creates no node and changes
\* none.
C28_OneNodePerPath ==
  /\ \A i, j \in 1..Len(db.categories) :
       db.categories[i].shopifyCategory = db.categories[j].shopifyCategory
       => i = j
  /\ (SameExportAgain /\ last.prior.clean) =>
       /\ ~last.thrown
       /\ db.categories = last.pre.categories

\* The paths H > K and S > K built twice: four nodes after either run.
C28_Witness ==
  /\ SameExportAgain /\ last.prior.clean
  /\ Cardinality(CandidatePaths) = 4
  /\ Len(last.pre.categories) = 4
  /\ Len(db.categories) = 4
\* The value a row gives for a metafield key.
RowValue(row, key) ==
  IF key = "color-pattern" THEN row.Color ELSE row.ExerciseFeatures

\* The last row of a handle that gives a value for a key.
LatestValue(rows, handle, key) ==
  LET mine == RowsInOrder(rows, handle)
      k == CHOOSE i \in 1..Len(mine) :
             /\ RowValue(mine[i], key) # ""
             /\ \A e \in (i + 1)..Len(mine) : RowValue(mine[e], key) = ""
  IN  RowValue(mine[k], key)

\* (product, namespace, key) identifies at most one metafield, in the
\* aggregated record and in the store.
MetafieldKeysUnique ==
  /\ \A p \in Range(last.aggregated) :
       \A i, j \in 1..Len(p.metafields) :
         (/\ p.metafields[i].namespace = p.metafields[j].namespace
          /\ p.metafields[i].key = p.metafields[j].key) => i = j
  /\ \A i, j \in 1..Len(db.metafields) :
       (/\ db.metafields[i].productId = db.metafields[j].productId
        /\ db.metafields[i].namespace = db.metafields[j].namespace
        /\ db.metafields[i].key = db.metafields[j].key) => i = j

\* C29: (product, namespace, key) identifies at most one metafield, and when
\* a key is ingested again for a product with a different value the new
\* value overwrites the old one: the metafield holds the latest value given.
C29_MetafieldHoldsLatestValue ==
  last.kind = "aggregated" =>
    /\ MetafieldKeysUnique
    /\ \A p \in Range(last.aggregated) :
         \A m \in Range(p.metafields) :
           m.value = LatestValue(last.file.rows, p.handle, m.key)

\* The uniqueness alone, which holds for the aggregator and for the store.
C29_MetafieldKeysUnique == MetafieldKeysUnique

\* ---- webhook monitor
RequestAnswered == last.kind \in {"webhook", "monitored"}

\* the status the monitor is given for a response
StatusOf(resp) == IF resp = Success THEN "success" ELSE "failed"

\* entry i of the monitor is the one thing the latest request wrote there
WrittenOnce(i) ==
  LET before == last.recorded.recentWebhooks
      after == monitor.recentWebhooks
  IN  /\ i \in DOMAIN before => after[i] # before[i]
      /\ \A j \in DOMAIN after \ {i} :
            j \in DOMAIN before /\ after[j] = before[j]
      /\ DOMAIN before \subseteq DOMAIN after

\* entry i carries the topic, status, attempt count and latency of the
\* latest request
DescribesLast(i) ==
  LET e == monitor.recentWebhooks[i].value
  IN  /\ e.topic = last.topic
      /\ e.status = StatusOf(last.resp)
      /\ e.attempts >= 1
      /\ e.processingTime = last.processingTime

\* C30: when a webhook request has been answered, with 200, 401 or 500, the
\* monitor holds an event the request wrote, exactly one, with the
\* request's topic, its status, an attempt count and its processing time.
C30_EveryRequestRecorded ==
  RequestAnswered =>
    \E i \in DOMAIN monitor.recentWebhooks :
      WrittenOnce(i) /\ DescribesLast(i)

\* The route that reports to the monitor records each request under its
\* webhookId: a first attempt, or one more than the event that id had.
C30_MonitoredRouteRecords ==
  last.kind = "monitored" =>
    /\ \E i \in DOMAIN monitor.recentWebhooks :
         /\ monitor.recentWebhooks[i].key = last.webhookId
         /\ WrittenOnce(i) /\ DescribesLast(i)
    /\ MapGet(monitor.recentWebhooks, last.webhookId).attempts =
         IF MapHas(last.recorded.recentWebhooks, last.webhookId)
         THEN MapGet(last.recorded.recentWebhooks,
                     last.webhookId).attempts + 1
         ELSE 1

\* the three endings, each recorded
C30_SuccessRecorded ==
  last.kind = "monitored" /\ last.resp = Success /\ last.calls # <<>>
C30_RejectionRecorded == last.kind = "monitored" /\ last.resp = Unauthorized
C30_HandlerErrorRecorded ==
  last.kind = "monitored" /\ last.thrown /\ last.failAt > 0
\* ---- failure alerts
\* the latest call sent one alert, for its topic
AlertRaised ==
  /\ Len(monitor.alerts) = Len(last.recorded.alerts) + 1
  /\ SubSeq(monitor.alerts, 1, Len(last.recorded.alerts))
       = last.recorded.alerts
  /\ monitor.alerts[Len(monitor.alerts)].topic = last.topic

FailureCounts ==
  {monitor.webhookFailures[i].value.count : i \in DOMAIN monitor.webhookFailures}

RecentEvents ==
  {monitor.recentWebhooks[i].value : i \in DOMAIN monitor.recentWebhooks}

SuccessfulEvents == {e \in RecentEvents : e.status = "success"}

\* C32: the webhook health check answers not healthy exactly when a topic
\* has more than 5 failures, or fewer than 95 in 100 of the recent events
\* succeeded, or the processing times of the recent events average more
\* than 5000 ms; without events it answers healthy.
C32_UnhealthyExactlyOnDocumentedLimits ==
  last.kind = "health" =>
    /\ ~last.health.healthy <=>
         \/ \E count \in FailureCounts : count > 5
         \/ /\ RecentEvents # {}
            /\ 100 * Cardinality(SuccessfulEvents)
                 < 95 * Cardinality(RecentEvents)
         \/ /\ RecentEvents # {}
            /\ TotalProcessingTime(monitor.recentWebhooks)
                 > 5000 * Cardinality(RecentEvents)
    /\ RecentEvents = {} => last.health.healthy

\* The check as the code makes it: a topic counts from the alert threshold
\* on, that is from 5 failures.
C32_UnhealthyFromThreshold ==
  last.kind = "health" =>
    /\ ~last.health.healthy <=>
         \/ \E count \in FailureCounts : count >= alertThreshold
         \/ /\ RecentEvents # {}
            /\ 100 * Cardinality(SuccessfulEvents)
                 < 95 * Cardinality(RecentEvents)
         \/ /\ RecentEvents # {}
            /\ TotalProcessingTime(monitor.recentWebhooks)
                 > 5000 * Cardinality(RecentEvents)
    /\ RecentEvents = {} => last.health.healthy

\* five failures of a topic, every recent event a success
C32_FiveFailures ==
  /\ last.kind = "health" /\ ~last.health.healthy
  /\ FailureCounts = {5}
  /\ RecentEvents # {} /\ SuccessfulEvents = RecentEvents
\* ---- health check
FullCheck == last.kind = "get" /\ ~last.quick
QuickCheck == last.kind = "get" /\ last.quick

StatusOfCheck(service) ==
  LET i == CHOOSE i \in DOMAIN last.result.checks :
             last.result.checks[i].service = service
  IN  last.result.checks[i].status

\* a configured third-party service that did not answer ok
ServiceFailing ==
  \/ last.env.stripe \in {"refused", "unreachable"}
  \/ last.env.shopify \in {"refused", "unreachable"}

\* C33: whatever fails, neither performHealthCheck nor quickHealthCheck
\* throws; when the store is unreachable the database check of the full
\* result is degraded or unhealthy, and when a configured third-party
\* service fails the external_services check is.
C33_DependencyFailureIsAStatus ==
  last.kind = "get" =>
    /\ ~last.result.thrown
    /\ FullCheck =>
         /\ Len(last.result.checks) = 4
         /\ ~last.env.storeUp =>
              StatusOfCheck("database") \in {"degraded", "unhealthy"}
         /\ ServiceFailing =>
              StatusOfCheck("external_services") \in {"degraded", "unhealthy"}

\* the store and both services down, full check
C33_Witness ==
  /\ FullCheck /\ ~last.env.storeUp
  /\ last.env.stripe = "unreachable" /\ last.env.shopify = "unreachable"
  /\ StatusOfCheck("database") = "unhealthy"
  /\ StatusOfCheck("external_services") = "degraded"

CheckStatuses ==
  {last.result.checks[i].status : i \in DOMAIN last.result.checks}

\* C34: the overall status is unhealthy iff a check is unhealthy, degraded
\* iff none is unhealthy and one is degraded, healthy otherwise; the full
\* endpoint answers 503 iff the overall status is unhealthy, the quick one
\* iff the store is unreachable, and 200 otherwise.
C34_OverallStatusAndCode ==
  /\ FullCheck =>
       /\ last.result.overall = "unhealthy" <=> "unhealthy" \in CheckStatuses
       /\ last.result.overall = "degraded" <=>
            "unhealthy" \notin CheckStatuses /\ "degraded" \in CheckStatuses
       /\ last.result.overall = "healthy" <=> CheckStatuses = {"healthy"}
       /\ last.resp = ServiceUnavailable <=> last.result.overall = "unhealthy"
       /\ last.resp \in {Success, ServiceUnavailable}
  /\ QuickCheck =>
       /\ last.resp = ServiceUnavailable <=> ~last.env.storeUp
       /\ last.resp \in {Success, ServiceUnavailable}

\* a degraded system answered 200
C34_Witness ==
  /\ FullCheck /\ last.result.overall = "degraded" /\ last.resp = Success
  /\ CheckStatuses = {"healthy", "degraded"}

\* C35: after any interleaving of concurrent verified notifications with the
\* same external key, the store holds at most one order per shopifyOrderId,
\* and every finished request that did not write its payload was answered
\* with an error.
OrdersWithKey(key) ==
  {i \in 1..Len(db.orders) : db.orders[i].shopifyOrderId = key}

C35_OneEntityPerKeyOrError ==
  last.kind = "orders" =>
    /\ \A i \in 1..Len(db.orders) :
         Cardinality(OrdersWithKey(db.orders[i].shopifyOrderId)) <= 1
    /\ \A i \in 1..Len(inflight) :
         (inflight[i].pc = "done" /\ ~inflight[i].wrote)
           => inflight[i].thrown

\* the first half alone: one order per shopifyOrderId
C35_OneOrderPerKey ==
  last.kind = "orders" =>
    \A i \in 1..Len(db.orders) :
      Cardinality(OrdersWithKey(db.orders[i].shopifyOrderId)) <= 1

\* the product half: Product.handle is unique, so the store never holds two
\* products with one handle, and a create that lost the race has thrown
C35_OneProductPerHandle ==
  last.kind = "concurrent" =>
    /\ \A i, j \in 1..Len(db.products) :
         db.products[i].handle = db.products[j].handle => i = j
    /\ \A i \in 1..Len(inflight) :
         (inflight[i].pc = "done" /\ inflight[i].topic = "products/create"
            /\ inflight[i].found = NoId
            /\ \E p \in 1..Len(db.products) :
                 /\ db.products[p].handle = inflight[i].data.handle
                 /\ db.products[p].createdAt # inflight[i].at)
           => inflight[i].thrown


\* C36: after any sequence of customers/create, customers/update and customer
\* migrations, among them deliveries in which the customer's email has
\* changed, the store holds at most one User per shopifyCustomerId.
UsersWithCustomerId(key) ==
  {i \in 1..Len(db.users) : db.users[i].shopifyCustomerId = key}

C36_OneUserPerCustomerId ==
  \A i \in 1..Len(db.users) :
    Cardinality(UsersWithCustomerId(db.users[i].shopifyCustomerId)) <= 1

\* what the code does keep: one User per email, on either road
C36_OneUserPerEmail ==
  \A i, j \in 1..Len(db.users) :
    db.users[i].email = db.users[j].email => i = j


\* C37: once a products/delete notification has been applied to a product,
\* a create or update notification for the same handle delivered afterwards
\* leaves the product's status ARCHIVED.
DeleteApplied ==
  /\ last.kind = "webhook"
  /\ last.topic = "products/delete"
  /\ last.resp = Success
  /\ \E i \in 1..Len(db.products) :
       /\ db.products[i].handle = last.body.data.handle
       /\ db.products[i].status = "ARCHIVED"

C37_ArchivedStaysArchived ==
  [][(/\ DeleteApplied
      /\ last'.kind = "webhook"
      /\ last'.topic \in {"products/create", "products/update"}
      /\ last'.resp = Success
      /\ last'.body.data.handle = last.body.data.handle)
       => \A i \in 1..Len(db.products) :
            db.products[i].handle = last.body.data.handle
              => db'.products[i].status = "ARCHIVED"]_vars

\* what a later delivery does keep: the row itself, under the same handle
C37_ArchivedRowKept ==
  [][(/\ DeleteApplied
      /\ last'.kind = "webhook"
      /\ last'.topic \in {"products/create", "products/update"}
      /\ last'.resp = Success
      /\ last'.body.data.handle = last.body.data.handle)
       => /\ Len(db'.products) = Len(db.products)
          /\ \A i \in 1..Len(db.products) :
               db'.products[i].handle = db.products[i].handle]_vars


\* C38: after a run of the product migration in which nothing fails, every
\* product an earlier migration run wrote has all the variants, images and
\* metafields of its aggregated record, also when that earlier run failed
\* part-way through the product.
ChildCount(coll, pid) ==
  Cardinality({i \in 1..Len(db[coll]) : db[coll][i].productId = pid})

Complete(p, productData) ==
  /\ ChildCount("variants", p.id) = Len(productData.variants)
  /\ ChildCount("images", p.id) =
       Len(SelectSeq(productData.images, LAMBDA img : img.src # ""))
  /\ ChildCount("metafields", p.id) =
       Len(SelectSeq(productData.metafields, LAMBDA m : m.value # ""))

CleanRun ==
  /\ last.kind = "migrate"
  /\ last.failAt = 0
  /\ ~last.thrown
  /\ last.tally.errorCount = 0
  /\ Readable(last.file)

\* products written by a migration run of this process life
Migrated(p) == p.createdAt > 0

C38_RerunCompletesProduct ==
  CleanRun =>
    LET products == groupProductData(last.file.rows)
    IN  \A k \in 1..Len(products), i \in 1..Len(db.products) :
          (db.products[i].handle = products[k].handle
             /\ Migrated(db.products[i]))
            => Complete(db.products[i], products[k])

\* what a clean run does give: the products it created itself are complete
C38_CreatedProductComplete ==
  CleanRun =>
    LET products == groupProductData(last.file.rows)
    IN  \A k \in 1..Len(products), i \in 1..Len(db.products) :
          (db.products[i].handle = products[k].handle
             /\ db.products[i].createdAt = now)
            => Complete(db.products[i], products[k])


\* C39: every invocation of a product create or update handler terminates
\* under any interleaving with other requests: it delegates between
\* handleProductCreate and handleProductUpdate at most twice, and once it
\* has begun it always reaches its end.
FindSteps == {"create.find", "update.find", "delete.find"}

\* times the handler has passed from one of the two handlers to the other:
\* every call it has been served was a lookup, but for the final write
Delegations(th) ==
  IF th.pc \in FindSteps THEN Len(th.served)
  ELSE IF th.pc = "done" THEN Len(th.served) - 2
  ELSE Len(th.served) - 1

DelegationBounded ==
  \A i \in 1..Len(inflight) :
    inflight[i].topic \in {"products/create", "products/update"}
      => Delegations(inflight[i]) <= 2

C39_EveryHandlerTerminates ==
  /\ []DelegationBounded
  /\ \A i \in 1..MaxHandlers :
       (Len(inflight) >= i) ~> (Len(inflight) >= i /\ inflight[i].pc = "done")

\* an update that found nothing, then a create that found the product another
\* request had written meanwhile, is looking the product up a third time
C39_Witness ==
  \E i \in 1..Len(inflight) :
    /\ inflight[i].topic = "products/update"
    /\ inflight[i].pc = "update.find"
    /\ Delegations(inflight[i]) = 2


\* C40: after any sequence of recordWebhookEvent calls the store of recent
\* events holds at most MAX_RECENT_WEBHOOKS events; a record that pushes it
\* over the limit evicts exactly one event, the one inserted earliest, and
\* the event just recorded is present; any other record evicts nothing.
EventIds(entries) == {entries[i].key : i \in 1..Len(entries)}

PushesOver ==
  /\ last.kind = "record"
  /\ Len(last.recorded.recentWebhooks) = MAX_RECENT_WEBHOOKS
  /\ ~MapHas(last.recorded.recentWebhooks, last.webhookId)

C40_AtMostLimitOldestEvicted ==
  /\ Len(monitor.recentWebhooks) <= MAX_RECENT_WEBHOOKS
  /\ last.kind = "record" =>
       LET before == last.recorded.recentWebhooks
           after == monitor.recentWebhooks
       IN  /\ MapHas(after, last.webhookId)
           /\ MapGet(after, last.webhookId).status = last.status
           /\ IF PushesOver
              THEN /\ EventIds(after) =
                        (EventIds(before) \ {before[1].key}) \cup {last.webhookId}
                   /\ Len(after) = MAX_RECENT_WEBHOOKS
                   /\ \A i \in 1..(Len(after) - 1) : after[i] = before[i + 1]
              ELSE EventIds(before) \subseteq EventIds(after)

C40_Witness ==
  /\ PushesOver
  /\ ~MapHas(monitor.recentWebhooks, last.recorded.recentWebhooks[1].key)
  /\ MapHas(monitor.recentWebhooks, last.webhookId)

====
